---- MODULE Spec2Model ----
(***************************************************************************)
(* Apollo VS Code theme: the validation scripts of the repository.         *)
(*                                                                         *)
(* Every script is its own Node.js process, so every script gets its own   *)
(* specification over the variables below; a specification leaves the      *)
(* variables of the other scripts at their idle values.                    *)
(*                                                                         *)
(*   SpecColors   colors.ts: the palette and its helper functions          *)
(*   SpecContrast the luminance / contrast helpers of the three scripts    *)
(*   SpecRunner   run-tests.js: TestRunner and its main                    *)
(*   SpecSuite    test-suite.js: ApolloThemeTestSuite.runAllTests          *)
(*   SpecMapping  the three uiTheme validators on one package.json         *)
(*                                                                         *)
(* JavaScript values: strings are TLA+ strings, undefined is Undefined,    *)
(* NaN is NaN.   Real numbers are fixed-point integers; the scale of each   *)
(* quantity is stated where it is defined.                                 *)
(***************************************************************************)
EXTENDS Integers, Sequences, FiniteSets, TLC

VARIABLES
    fn,        \* pure-function harness: the function applied last ("" = none yet)
    args,      \* pure-function harness: the arguments drawn in Init
    ret,       \* pure-function harness: the value the function returned
    rResults,  \* TestRunner.results
    rPc,       \* TestRunner: position in main / runAllTests / runTestSuite
    rIdx,      \* TestRunner: index (1-based) of the suite the for-loop is at
    rChild,    \* TestRunner: events the current child process has emitted
    rPromise,  \* TestRunner: state of the promise executeTest returned
    rReport,   \* TestRunner: whether generateTestReport wrote test-report.json
    rReturn,   \* TestRunner: how the promise of runAllTests settled
    rExit,     \* run-tests.js: the status process.exit was called with
    sResults,  \* ApolloThemeTestSuite.results
    sPc,       \* ApolloThemeTestSuite.runAllTests: the test that runs next
    sFiles,    \* the files test-suite.js reads (themes, package.json, test files)
    sReturn,   \* the value runAllTests resolved to
    pkg,       \* the package.json and theme types the uiTheme validators read
    inst,      \* InstallationActivationTester / ManualInstallationTester run
    ver        \* ApolloThemeVSCodeVersionTest run

harnessVars == <<fn, args, ret>>
runnerVars == <<rResults, rPc, rIdx, rChild, rPromise, rReport, rReturn, rExit>>
suiteVars == <<sResults, sPc, sFiles, sReturn>>
mappingVars == <<pkg>>
installerVars == <<inst>>
versionVars == <<ver>>
vars == <<fn, args, ret, rResults, rPc, rIdx, rChild, rPromise, rReport, rReturn, rExit,
          sResults, sPc, sFiles, sReturn, pkg, inst, ver>>

Undefined == "undefined"
\* NaN: a value outside the range of every number the model computes (all >= 0)
NaN == 0 - 1

(***************************************************************************)
(* JavaScript string primitives                                            *)
(***************************************************************************)
Min(a, b) == IF a <= b THEN a ELSE b
Max(a, b) == IF a >= b THEN a ELSE b

\* String.prototype.slice(start, end) for 0 <= start, 0 <= end (0-based, end exclusive)
Slice(s, start, end) ==
    LET from == Min(start, Len(s))
        to == Min(end, Len(s))
    IN IF from >= to THEN "" ELSE SubSeq(s, from + 1, to)

\* the character at 1-based position i
CharAt(s, i) == SubSeq(s, i, i)

\* String.prototype.includes(sub)
Includes(s, sub) ==
    \/ Len(sub) = 0
    \/ \E i \in 1..(Len(s) - Len(sub) + 1) : SubSeq(s, i, i + Len(sub) - 1) = sub

HexDigits == {"0", "1", "2", "3", "4", "5", "6", "7", "8", "9",
              "a", "b", "c", "d", "e", "f", "A", "B", "C", "D", "E", "F"}

HexValue(ch) ==
    CASE ch = "0" -> 0 [] ch = "1" -> 1 [] ch = "2" -> 2 [] ch = "3" -> 3
      [] ch = "4" -> 4 [] ch = "5" -> 5 [] ch = "6" -> 6 [] ch = "7" -> 7
      [] ch = "8" -> 8 [] ch = "9" -> 9
      [] ch \in {"a", "A"} -> 10 [] ch \in {"b", "B"} -> 11
      [] ch \in {"c", "C"} -> 12 [] ch \in {"d", "D"} -> 13
      [] ch \in {"e", "E"} -> 14 [] ch \in {"f", "F"} -> 15

\* parseInt(s, 16) for a string of at most two characters without white space or
\* sign: an optional 0x / 0X prefix is dropped, then the longest prefix of
\* hexadecimal digits is read; NaN when that prefix is empty.
ParseInt16(s) ==
    LET body == IF Len(s) = 2 /\ CharAt(s, 1) = "0" /\ CharAt(s, 2) \in {"x", "X"}
                THEN "" ELSE s
    IN IF Len(body) = 0 \/ CharAt(body, 1) \notin HexDigits THEN NaN
       ELSE IF Len(body) = 1 \/ CharAt(body, 2) \notin HexDigits
            THEN HexValue(CharAt(body, 1))
            ELSE 16 * HexValue(CharAt(body, 1)) + HexValue(CharAt(body, 2))

(***************************************************************************)
(* Fixed-point arithmetic.  A real number x in [0, 1] is the integer       *)
(* floor(x * FP); a product is kept below 2^31 by splitting one factor.    *)
(***************************************************************************)
FP == 10^5

\* a * b for two fixed-point numbers in [0, 1]
MulFP(a, b) == (a * (b \div 1000)) \div 100 + (a * (b % 1000)) \div FP

\* y^5 for a fixed-point number in [0, 1]
Pow5FP(y) == LET y2 == MulFP(y, y) IN MulFP(MulFP(y2, y2), y)

\* the largest y in lo..hi with y^5 <= x (bisection)
RECURSIVE FifthRootFP(_, _, _)
FifthRootFP(x, lo, hi) ==
    IF lo >= hi THEN lo
    ELSE LET mid == (lo + hi + 1) \div 2
         IN IF Pow5FP(mid) <= x THEN FifthRootFP(x, mid, hi)
            ELSE FifthRootFP(x, lo, mid - 1)

\* Math.pow(x, 2.4) for a fixed-point x in [0, 1]: x^2 * (x^2)^(1/5)
MathPow24(x) == LET x2 == MulFP(x, x) IN MulFP(x2, FifthRootFP(x2, 0, FP))

(***************************************************************************)
(* Relative luminance: the three copies of calculateLuminance.             *)
(* A channel c / 255 and a linearised channel are fixed-point at FP; a     *)
(* luminance is fixed-point at LumScale = 10^7 (the weights are taken      *)
(* times 10^4 and the sum divided by 100).                                 *)
(***************************************************************************)
LumScale == 10^7

\* parseInt(hex.slice(a, b), 16) / 255
Channel(hex, a, b) ==
    LET n == ParseInt16(Slice(hex, a, b))
    IN IF n = NaN THEN NaN ELSE (n * FP) \div 255

\* test-suite.js: c <= 0.03928 ? c / 12.92 : Math.pow((c + 0.055) / 1.055, 2.4)
LinearSuite(c) ==
    IF c = NaN THEN NaN
    ELSE IF c <= 3928 THEN (c * 100) \div 1292
         ELSE MathPow24(((c + 5500) * 1000) \div 1055)

\* mutant of calculateLuminance: the red and green weights exchanged
calculateLuminance_WeightsSwapped(hexColor) ==
    LET hex == Slice(hexColor, 0, 7)
        r == Channel(hex, 1, 3)
        g == Channel(hex, 3, 5)
        b == Channel(hex, 5, 7)
    IN IF r = NaN \/ g = NaN \/ b = NaN THEN NaN
       ELSE (7152 * LinearSuite(r) + 2126 * LinearSuite(g)
             + 722 * LinearSuite(b)) \div 100

\* ApolloThemeTestSuite.calculateLuminance(hexColor), hexColor a string
calculateLuminance(hexColor) ==
    LET hex == Slice(hexColor, 0, 7)
        r == Channel(hex, 1, 3)
        g == Channel(hex, 3, 5)
        b == Channel(hex, 5, 7)
    IN IF r = NaN \/ g = NaN \/ b = NaN THEN NaN
       ELSE (2126 * LinearSuite(r) + 7152 * LinearSuite(g)
             + 722 * LinearSuite(b)) \div 100

\* test-contrast-analysis.js: the same expression, its own copy
LinearAnalysis(c) ==
    IF c = NaN THEN NaN
    ELSE IF c <= 3928 THEN (c * 100) \div 1292
         ELSE MathPow24(((c + 5500) * 1000) \div 1055)

\* test-contrast-analysis.js calculateLuminance(hexColor): no slice(0, 7)
calculateLuminanceAnalysis(hexColor) ==
    LET r == Channel(hexColor, 1, 3)
        g == Channel(hexColor, 3, 5)
        b == Channel(hexColor, 5, 7)
    IN IF r = NaN \/ g = NaN \/ b = NaN THEN NaN
       ELSE (2126 * LinearAnalysis(r) + 7152 * LinearAnalysis(g)
             + 722 * LinearAnalysis(b)) \div 100

\* test-light-final.js: the same expression, its own copy
LinearFinal(c) ==
    IF c = NaN THEN NaN
    ELSE IF c <= 3928 THEN (c * 100) \div 1292
         ELSE MathPow24(((c + 5500) * 1000) \div 1055)

\* test-light-final.js calculateLuminance(hexColor)
calculateLuminanceFinal(hexColor) ==
    LET r == Channel(hexColor, 1, 3)
        g == Channel(hexColor, 3, 5)
        b == Channel(hexColor, 5, 7)
    IN IF r = NaN \/ g = NaN \/ b = NaN THEN NaN
       ELSE (2126 * LinearFinal(r) + 7152 * LinearFinal(g)
             + 722 * LinearFinal(b)) \div 100

(***************************************************************************)
(* Contrast ratio.  A ratio is the fraction [num, den] of two luminances   *)
(* plus 0.05, never rounded (NaN: num = den = NaN); it is compared with a  *)
(* threshold p / q by cross-multiplication.                                *)
(***************************************************************************)
\* (Math.max(l1, l2) + 0.05) / (Math.min(l1, l2) + 0.05); Math.max / Math.min
\* return NaN when an argument is NaN
RatioOf(l1, l2) ==
    IF l1 = NaN \/ l2 = NaN THEN [num |-> NaN, den |-> NaN]
    ELSE [num |-> Max(l1, l2) + LumScale \div 20, den |-> Min(l1, l2) + LumScale \div 20]

\* ratio >= p / q   (false for NaN)
RatioGE(ratio, p, q) == ratio.num # NaN /\ q * ratio.num >= p * ratio.den

\* ratio < p / q    (false for NaN)
RatioLT(ratio, p, q) == ratio.num # NaN /\ q * ratio.num < p * ratio.den

\* mutant of calculateContrastRatio: the luminances are not ordered
calculateContrastRatio_Unordered(color1, color2) ==
    LET luminance1 == calculateLuminance(color1)
        luminance2 == calculateLuminance(color2)
    IN IF luminance1 = NaN \/ luminance2 = NaN THEN [num |-> NaN, den |-> NaN]
       ELSE [num |-> luminance1 + LumScale \div 20, den |-> luminance2 + LumScale \div 20]

\* ApolloThemeTestSuite.calculateContrastRatio(color1, color2)
calculateContrastRatio(color1, color2) ==
    LET luminance1 == calculateLuminance(color1)
        luminance2 == calculateLuminance(color2)
    IN RatioOf(luminance1, luminance2)

\* analyzeContrast: the contrast of one token colour against the background
analyzeContrastRatio(backgroundColor, color) ==
    LET bgLuminance == calculateLuminanceAnalysis(backgroundColor)
        colorLuminance == calculateLuminanceAnalysis(color)
    IN RatioOf(bgLuminance, colorLuminance)

\* runFinalTest: the contrast of one colour against the background
runFinalTestRatio(backgroundColor, color) ==
    LET bgLuminance == calculateLuminanceFinal(backgroundColor)
        colorLuminance == calculateLuminanceFinal(color)
    IN RatioOf(bgLuminance, colorLuminance)

\* mutant of getContrastLevel: the AA bound is exclusive
getContrastLevel_Exclusive(ratio) ==
    IF RatioGE(ratio, 7, 1) THEN "AAA"
    ELSE IF RatioGE(ratio, 9, 2) /\ 2 * ratio.num # 9 * ratio.den THEN "AA"
    ELSE IF RatioGE(ratio, 3, 1) THEN "AA Large"
    ELSE "Fail"

\* getContrastLevel(ratio) of test-contrast-analysis.js
getContrastLevel(ratio) ==
    IF RatioGE(ratio, 7, 1) THEN "AAA"
    ELSE IF RatioGE(ratio, 9, 2) THEN "AA"
    ELSE IF RatioGE(ratio, 3, 1) THEN "AA Large"
    ELSE "Fail"

\* getContrastLevel(ratio) of test-light-final.js
getContrastLevelFinal(ratio) ==
    IF RatioGE(ratio, 7, 1) THEN "AAA"
    ELSE IF RatioGE(ratio, 9, 2) THEN "AA"
    ELSE IF RatioGE(ratio, 3, 1) THEN "AA Large"
    ELSE "Fail"

\* analyzeContrast: the icon printed beside a colour
analyzeContrastStatus(ratio) ==
    IF RatioGE(ratio, 9, 2) THEN "pass"
    ELSE IF RatioGE(ratio, 3, 1) THEN "warn"
    ELSE "fail"

\* testContrastRatios: the log call of the main-editor branch
mainContrastLog(ratio) ==
    IF RatioGE(ratio, 9, 2) THEN "pass"
    ELSE IF RatioGE(ratio, 3, 1) THEN "warning"
    ELSE "fail"

(***************************************************************************)
(* colors.ts: the Apollo palette.  An object is the sequence of its        *)
(* <<key, value>> entries in insertion order.                              *)
(***************************************************************************)

BLUES_TEALS == <<
    <<"DARKEST_BLUE", "#172038">>,
    <<"DARK_BLUE", "#253a5e">>,
    <<"MEDIUM_BLUE", "#3c5e8b">>,
    <<"LIGHT_BLUE", "#4f8fba">>,
    <<"BRIGHT_TEAL", "#73bed3">>,
    <<"LIGHTEST_TEAL", "#a4dddb">>
>>

GREENS == <<
    <<"DARKEST_GREEN", "#19332d">>,
    <<"DARK_GREEN", "#25562e">>,
    <<"MEDIUM_GREEN", "#468232">>,
    <<"BRIGHT_GREEN", "#75a743">>,
    <<"LIGHT_GREEN", "#a8ca58">>,
    <<"LIGHTEST_GREEN", "#d0da91">>
>>

BROWNS_ORANGES == <<
    <<"DARKEST_BROWN", "#4d2b32">>,
    <<"DARK_BROWN", "#7a4841">>,
    <<"MEDIUM_BROWN", "#ad7757">>,
    <<"LIGHT_BROWN", "#c09473">>,
    <<"LIGHTEST_BROWN", "#d7b594">>,
    <<"CREAM", "#e7d5b3">>
>>

WARM_TONES == <<
    <<"DARKEST_WARM", "#341c27">>,
    <<"DARK_WARM", "#602c2c">>,
    <<"MEDIUM_WARM", "#884b2b">>,
    <<"BRIGHT_WARM", "#be772b">>,
    <<"LIGHT_WARM", "#de9e41">>,
    <<"LIGHTEST_WARM", "#e8c170">>
>>

PURPLES_MAGENTAS == <<
    <<"DARKEST_PURPLE", "#241527">>,
    <<"DARK_PURPLE", "#411d31">>,
    <<"MEDIUM_PURPLE", "#752438">>,
    <<"BRIGHT_PURPLE", "#a53030">>,
    <<"LIGHT_PURPLE", "#cf573c">>,
    <<"LIGHTEST_PURPLE", "#da863e">>
>>

DEEP_PURPLES == <<
    <<"DARKEST_DEEP", "#1e1d39">>,
    <<"DARK_DEEP", "#402751">>,
    <<"MEDIUM_DEEP", "#7a367b">>,
    <<"BRIGHT_DEEP", "#a23e8c">>,
    <<"LIGHT_DEEP", "#c65197">>,
    <<"LIGHTEST_DEEP", "#df84a5">>
>>

GRAYSCALE == <<
    <<"BLACK", "#090a14">>,
    <<"DARKEST_GRAY", "#10141f">>,
    <<"DARKER_GRAY", "#151d28">>,
    <<"DARK_GRAY", "#202e37">>,
    <<"MEDIUM_DARK_GRAY", "#394a50">>,
    <<"MEDIUM_GRAY", "#577277">>,
    <<"LIGHT_MEDIUM_GRAY", "#819796">>,
    <<"LIGHT_GRAY", "#a8b5b2">>,
    <<"LIGHTER_GRAY", "#c7cfcc">>,
    <<"WHITE", "#ebede9">>
>>

\* Object.keys(obj)
ObjectKeys(obj) == [i \in 1..Len(obj) |-> obj[i][1]]

\* Object.values(obj)
ObjectValues(obj) == [i \in 1..Len(obj) |-> obj[i][2]]

\* obj.hasOwnProperty(key)
HasKey(obj, key) == \E i \in 1..Len(obj) : obj[i][1] = key

\* obj[key], Undefined when obj has no such key
Get(obj, key) ==
    IF HasKey(obj, key)
    THEN obj[CHOOSE i \in 1..Len(obj) : obj[i][1] = key][2]
    ELSE Undefined

\* { ...obj, key: value }: an existing key keeps its place and takes the value
SetEntry(obj, key, value) ==
    IF HasKey(obj, key)
    THEN [i \in 1..Len(obj) |-> IF obj[i][1] = key THEN <<key, value>> ELSE obj[i]]
    ELSE Append(obj, <<key, value>>)

\* { ...left, ...right }
RECURSIVE ObjectSpread(_, _)
ObjectSpread(left, right) ==
    IF Len(right) = 0 THEN left
    ELSE ObjectSpread(SetEntry(left, right[1][1], right[1][2]), Tail(right))

APOLLO_PALETTE ==
    ObjectSpread(ObjectSpread(ObjectSpread(ObjectSpread(ObjectSpread(ObjectSpread(
        BLUES_TEALS, GREENS), BROWNS_ORANGES), WARM_TONES), PURPLES_MAGENTAS),
        DEEP_PURPLES), GRAYSCALE)

\* getColorsFromGroup(group)
getColorsFromGroup(group) == ObjectValues(group)

\* getAllApolloColors()
getAllApolloColors == ObjectValues(APOLLO_PALETTE)

\* DARK_THEME_COLORS and LIGHT_THEME_COLORS, a path such as background.primary
\* written as one key
DARK_THEME_COLORS == <<
    <<"background.primary", Get(GRAYSCALE, "BLACK")>>,
    <<"background.secondary", Get(GRAYSCALE, "DARKEST_GRAY")>>,
    <<"background.tertiary", Get(GRAYSCALE, "DARKER_GRAY")>>,
    <<"text.primary", Get(GRAYSCALE, "WHITE")>>,
    <<"text.secondary", Get(GRAYSCALE, "LIGHTER_GRAY")>>,
    <<"text.muted", Get(GRAYSCALE, "LIGHT_MEDIUM_GRAY")>>,
    <<"accents.primary", Get(BLUES_TEALS, "BRIGHT_TEAL")>>,
    <<"accents.secondary", Get(GREENS, "LIGHT_GREEN")>>,
    <<"accents.warning", Get(WARM_TONES, "LIGHT_WARM")>>,
    <<"accents.error", Get(PURPLES_MAGENTAS, "LIGHT_PURPLE")>>,
    <<"accents.info", Get(BLUES_TEALS, "LIGHT_BLUE")>>,
    <<"accents.success", Get(GREENS, "BRIGHT_GREEN")>>
>>

LIGHT_THEME_COLORS == <<
    <<"background.primary", Get(GRAYSCALE, "WHITE")>>,
    <<"background.secondary", Get(GRAYSCALE, "LIGHTER_GRAY")>>,
    <<"background.tertiary", Get(GRAYSCALE, "LIGHT_GRAY")>>,
    <<"text.primary", Get(GRAYSCALE, "BLACK")>>,
    <<"text.secondary", Get(GRAYSCALE, "DARKER_GRAY")>>,
    <<"text.muted", Get(GRAYSCALE, "MEDIUM_DARK_GRAY")>>,
    <<"accents.primary", Get(BLUES_TEALS, "BRIGHT_TEAL")>>,
    <<"accents.secondary", Get(GREENS, "LIGHT_GREEN")>>,
    <<"accents.warning", Get(WARM_TONES, "LIGHT_WARM")>>,
    <<"accents.error", Get(PURPLES_MAGENTAS, "LIGHT_PURPLE")>>,
    <<"accents.info", Get(BLUES_TEALS, "LIGHT_BLUE")>>,
    <<"accents.success", Get(GREENS, "BRIGHT_GREEN")>>
>>

getThemeColors(isDark) == IF isDark THEN DARK_THEME_COLORS ELSE LIGHT_THEME_COLORS

\* isDark ? group.dark : group.light
Pick(isDark, group, dark, light) == Get(group, IF isDark THEN dark ELSE light)

\* getSyntaxColors with the two themes taken for each other
getSyntaxColors_ThemesSwapped(isDark) ==
    << <<"keyword", Pick(~isDark, BLUES_TEALS, "LIGHT_BLUE", "MEDIUM_BLUE")>>,
       <<"string", Pick(~isDark, GREENS, "LIGHT_GREEN", "MEDIUM_GREEN")>>,
       <<"comment", Pick(~isDark, GRAYSCALE, "MEDIUM_GRAY", "MEDIUM_DARK_GRAY")>>,
       <<"variable", Pick(~isDark, BLUES_TEALS, "LIGHTEST_TEAL", "DARK_BLUE")>>,
       <<"function", Pick(~isDark, WARM_TONES, "LIGHTEST_WARM", "MEDIUM_WARM")>>,
       <<"class", Pick(~isDark, PURPLES_MAGENTAS, "LIGHTEST_PURPLE", "MEDIUM_PURPLE")>>,
       <<"operator", Pick(~isDark, GRAYSCALE, "LIGHT_GRAY", "DARK_GRAY")>>,
       <<"number", Pick(~isDark, DEEP_PURPLES, "LIGHT_DEEP", "MEDIUM_DEEP")>>,
       <<"boolean", Pick(~isDark, DEEP_PURPLES, "LIGHTEST_DEEP", "BRIGHT_DEEP")>>,
       <<"type", Pick(~isDark, BROWNS_ORANGES, "LIGHTEST_BROWN", "MEDIUM_BROWN")>>,
       <<"constant", Pick(~isDark, WARM_TONES, "LIGHT_WARM", "BRIGHT_WARM")>> >>

getSyntaxColors(isDark) ==
    << <<"keyword", Pick(isDark, BLUES_TEALS, "LIGHT_BLUE", "MEDIUM_BLUE")>>,
       <<"string", Pick(isDark, GREENS, "LIGHT_GREEN", "MEDIUM_GREEN")>>,
       <<"comment", Pick(isDark, GRAYSCALE, "MEDIUM_GRAY", "MEDIUM_DARK_GRAY")>>,
       <<"variable", Pick(isDark, BLUES_TEALS, "LIGHTEST_TEAL", "DARK_BLUE")>>,
       <<"function", Pick(isDark, WARM_TONES, "LIGHTEST_WARM", "MEDIUM_WARM")>>,
       <<"class", Pick(isDark, PURPLES_MAGENTAS, "LIGHTEST_PURPLE", "MEDIUM_PURPLE")>>,
       <<"operator", Pick(isDark, GRAYSCALE, "LIGHT_GRAY", "DARK_GRAY")>>,
       <<"number", Pick(isDark, DEEP_PURPLES, "LIGHT_DEEP", "MEDIUM_DEEP")>>,
       <<"boolean", Pick(isDark, DEEP_PURPLES, "LIGHTEST_DEEP", "BRIGHT_DEEP")>>,
       <<"type", Pick(isDark, BROWNS_ORANGES, "LIGHTEST_BROWN", "MEDIUM_BROWN")>>,
       <<"constant", Pick(isDark, WARM_TONES, "LIGHT_WARM", "BRIGHT_WARM")>> >>

getWorkbenchColors(isDark) ==
    LET theme == getThemeColors(isDark)
    IN << <<"editor.background", Get(theme, "background.primary")>>,
          <<"editor.foreground", Get(theme, "text.primary")>>,
          <<"editor.selectionBackground", Pick(isDark, BLUES_TEALS, "DARK_BLUE", "LIGHTEST_TEAL")>>,
          <<"editor.lineHighlightBackground", Get(theme, "background.secondary")>>,
          <<"editor.findMatchBackground", Get(theme, "accents.warning")>>,
          <<"editor.findMatchHighlightBackground", Pick(isDark, WARM_TONES, "DARK_WARM", "LIGHTEST_WARM")>>,
          <<"sideBar.background", Get(theme, "background.secondary")>>,
          <<"sideBar.foreground", Get(theme, "text.secondary")>>,
          <<"sideBar.border", Get(theme, "background.tertiary")>>,
          <<"activityBar.background", Get(theme, "background.tertiary")>>,
          <<"activityBar.foreground", Get(theme, "text.primary")>>,
          <<"activityBar.activeBorder", Get(theme, "accents.primary")>>,
          <<"statusBar.background", Get(theme, "background.tertiary")>>,
          <<"statusBar.foreground", Get(theme, "text.primary")>>,
          <<"statusBar.noFolderBackground", Get(theme, "background.secondary")>>,
          <<"tab.activeBackground", Get(theme, "background.primary")>>,
          <<"tab.inactiveBackground", Get(theme, "background.secondary")>>,
          <<"tab.activeForeground", Get(theme, "text.primary")>>,
          <<"tab.inactiveForeground", Get(theme, "text.muted")>>,
          <<"tab.border", Get(theme, "background.tertiary")>>,
          <<"panel.background", Get(theme, "background.secondary")>>,
          <<"panel.border", Get(theme, "background.tertiary")>>,
          <<"panelTitle.activeForeground", Get(theme, "text.primary")>>,
          <<"panelTitle.inactiveForeground", Get(theme, "text.muted")>>,
          <<"terminal.background", Get(theme, "background.primary")>>,
          <<"terminal.foreground", Get(theme, "text.primary")>>,
          <<"terminal.ansiBlack", Get(GRAYSCALE, "BLACK")>>,
          <<"terminal.ansiRed", Get(theme, "accents.error")>>,
          <<"terminal.ansiGreen", Get(theme, "accents.success")>>,
          <<"terminal.ansiYellow", Get(theme, "accents.warning")>>,
          <<"terminal.ansiBlue", Get(theme, "accents.info")>>,
          <<"terminal.ansiMagenta", Pick(isDark, DEEP_PURPLES, "LIGHT_DEEP", "MEDIUM_DEEP")>>,
          <<"terminal.ansiCyan", Get(theme, "accents.primary")>>,
          <<"terminal.ansiWhite", Get(GRAYSCALE, "WHITE")>> >>

\* README, Syntax Highlighting Colors: element, Dark Theme, Light Theme
README_SyntaxTable == <<
    <<"Keywords", "#4f8fba", "#3c5e8b">>,
    <<"Strings", "#a8ca58", "#468232">>,
    <<"Comments", "#577277", "#394a50">>,
    <<"Variables", "#a4dddb", "#253a5e">>,
    <<"Functions", "#e8c170", "#884b2b">>,
    <<"Classes", "#da863e", "#752438">>,
    <<"Numbers", "#c65197", "#7a367b">>,
    <<"Operators", "#a8b5b2", "#202e37">>
>>

\* Array.prototype.includes(x) for an array of strings
ArrayIncludes(arr, x) == \E i \in 1..Len(arr) : arr[i] = x

\* isApolloColor(color)
isApolloColor(color) == ArrayIncludes(getAllApolloColors, color)

(***************************************************************************)
(* Regular expressions of the form ^ c1 c2 ... cn $ and ^ c1 ... cn (d1    *)
(* ... dm)? $ where every ci, di is a character class.                     *)
(***************************************************************************)
\* the position after matching the classes from 1-based position i, 0 when a
\* character is missing or outside its class
RECURSIVE MatchClasses(_, _, _)
MatchClasses(s, i, classes) ==
    IF Len(classes) = 0 THEN i
    ELSE IF i > Len(s) \/ CharAt(s, i) \notin classes[1] THEN 0
         ELSE MatchClasses(s, i + 1, Tail(classes))

\* $ : the match ended at the end of the input
AtEnd(s, i) == i = Len(s) + 1

HexClasses(n) == [k \in 1..n |-> HexDigits]

\* mutant of isValidHexColor: the pattern is not anchored at the end
isValidHexColor_Unanchored(color) ==
    MatchClasses(color, 1, <<{"#"}>> \o HexClasses(6)) # 0

\* /^#[0-9A-Fa-f]{6}$/.test(color) of colors.ts isValidHexColor
isValidHexColor(color) ==
    LET e == MatchClasses(color, 1, <<{"#"}>> \o HexClasses(6))
    IN e # 0 /\ AtEnd(color, e)

\* /^#[0-9A-Fa-f]{6}([0-9A-Fa-f]{2})?$/.test(color) of test-suite.js isValidColor
isValidColor(color) ==
    LET e == MatchClasses(color, 1, <<{"#"}>> \o HexClasses(6))
        g == IF e = 0 THEN 0 ELSE MatchClasses(color, e, HexClasses(2))
    IN e # 0 /\ ((g # 0 /\ AtEnd(color, g)) \/ AtEnd(color, e))

\* the exit status of a process that has not exited (no status is negative)
Running == 0 - 1

(***************************************************************************)
(* Idle values: what a specification leaves the other scripts' variables at *)
(***************************************************************************)
HarnessIdle == fn = "" /\ args = <<>> /\ ret = <<>>

RunnerIdle ==
    /\ rResults = [totalTests |-> 0, passedTests |-> 0, failedTests |-> 0, testSuites |-> <<>>]
    /\ rPc = "idle" /\ rIdx = 0 /\ rChild = <<>> /\ rPromise = "none"
    /\ rReport = FALSE /\ rReturn = "none" /\ rExit = Running

SuiteIdle ==
    /\ sResults = [passed |-> 0, failed |-> 0, warnings |-> 0, tests |-> <<>>]
    /\ sPc = "idle" /\ sFiles = <<>> /\ sReturn = "none"

MappingIdle == pkg = <<>>

InstallerIdle == inst = <<>>

VersionIdle == ver = <<>>

(***************************************************************************)
(* SpecColors: test-colors.js calls the helper functions of colors.ts      *)
(***************************************************************************)
\* strings that are no palette colour
ColorProbes == {"#xyz", "#ffffff", "#FFFFFF", "#A4DDDB", "#17203", "#1720388",
                "#172038ff", "172038", "1720380", "#17203g", "x#172038", "#", ""}

ColorInputs == {getAllApolloColors[i] : i \in 1..Len(getAllApolloColors)} \cup ColorProbes

InitColors ==
    /\ fn = "" /\ ret = <<>>
    /\ args \in {[color |-> c, isDark |-> d] : c \in ColorInputs, d \in BOOLEAN}
    /\ RunnerIdle /\ SuiteIdle /\ MappingIdle /\ InstallerIdle /\ VersionIdle

CallIsValidHexColor ==
    /\ fn = ""
    /\ fn' = "isValidHexColor"
    /\ ret' = isValidHexColor(args.color)
    /\ UNCHANGED <<args, runnerVars, suiteVars, mappingVars, installerVars, versionVars>>

CallIsApolloColor ==
    /\ fn = ""
    /\ fn' = "isApolloColor"
    /\ ret' = isApolloColor(args.color)
    /\ UNCHANGED <<args, runnerVars, suiteVars, mappingVars, installerVars, versionVars>>

CallGetAllApolloColors ==
    /\ fn = ""
    /\ fn' = "getAllApolloColors"
    /\ ret' = getAllApolloColors
    /\ UNCHANGED <<args, runnerVars, suiteVars, mappingVars, installerVars, versionVars>>

CallGetSyntaxColors ==
    /\ fn = ""
    /\ fn' = "getSyntaxColors"
    /\ ret' = getSyntaxColors(args.isDark)
    /\ UNCHANGED <<args, runnerVars, suiteVars, mappingVars, installerVars, versionVars>>

CallGetWorkbenchColors ==
    /\ fn = ""
    /\ fn' = "getWorkbenchColors"
    /\ ret' = getWorkbenchColors(args.isDark)
    /\ UNCHANGED <<args, runnerVars, suiteVars, mappingVars, installerVars, versionVars>>

NextColors ==
    \/ CallIsValidHexColor
    \/ CallIsApolloColor
    \/ CallGetAllApolloColors
    \/ CallGetSyntaxColors
    \/ CallGetWorkbenchColors

SpecColors == InitColors /\ [][NextColors]_vars

(***************************************************************************)
(* SpecContrast: the luminance and contrast helpers applied to colours and *)
(* to ratios                                                               *)
(***************************************************************************)
ContrastColors == {"#090a14", "#ebede9", "#ebede9ff", "#EBEDE9", "#819796", "#577277",
                   "#a8b5b2", "#000000", "#ffffff", "#0a0a0a", "#0b0b0b80",
                   "#xyz", "#17203g"}

\* ratios n / 100 around the thresholds 3, 4.5 and 7, and NaN
RatioInputs == {[num |-> n, den |-> 100] :
                    n \in {100, 299, 300, 301, 449, 450, 451, 699, 700, 701, 2100}}
               \cup {[num |-> NaN, den |-> NaN]}

InitContrast ==
    /\ fn = "" /\ ret = <<>>
    /\ args \in {[kind |-> "colors", color1 |-> a, color2 |-> b, ratio |-> [num |-> NaN, den |-> NaN]] :
                    a \in ContrastColors, b \in ContrastColors}
          \cup {[kind |-> "ratio", color1 |-> "", color2 |-> "", ratio |-> r] : r \in RatioInputs}
    /\ RunnerIdle /\ SuiteIdle /\ MappingIdle /\ InstallerIdle /\ VersionIdle

CallCalculateLuminance ==
    /\ fn = "" /\ args.kind = "colors"
    /\ fn' = "calculateLuminance"
    /\ ret' = calculateLuminance(args.color1)
    /\ UNCHANGED <<args, runnerVars, suiteVars, mappingVars, installerVars, versionVars>>

CallCalculateLuminanceAnalysis ==
    /\ fn = "" /\ args.kind = "colors"
    /\ fn' = "calculateLuminanceAnalysis"
    /\ ret' = calculateLuminanceAnalysis(args.color1)
    /\ UNCHANGED <<args, runnerVars, suiteVars, mappingVars, installerVars, versionVars>>

CallCalculateLuminanceFinal ==
    /\ fn = "" /\ args.kind = "colors"
    /\ fn' = "calculateLuminanceFinal"
    /\ ret' = calculateLuminanceFinal(args.color1)
    /\ UNCHANGED <<args, runnerVars, suiteVars, mappingVars, installerVars, versionVars>>

CallCalculateContrastRatio ==
    /\ fn = "" /\ args.kind = "colors"
    /\ fn' = "calculateContrastRatio"
    /\ ret' = calculateContrastRatio(args.color1, args.color2)
    /\ UNCHANGED <<args, runnerVars, suiteVars, mappingVars, installerVars, versionVars>>

\* the ratio a call of getContrastLevel is given: drawn directly, or computed
\* from the two colours as analyzeContrast does
RatioArg == IF args.kind = "ratio" THEN args.ratio
            ELSE analyzeContrastRatio(args.color1, args.color2)

CallGetContrastLevel ==
    /\ fn = ""
    /\ fn' = "getContrastLevel"
    /\ ret' = getContrastLevel(RatioArg)
    /\ UNCHANGED <<args, runnerVars, suiteVars, mappingVars, installerVars, versionVars>>

CallGetContrastLevelFinal ==
    /\ fn = ""
    /\ fn' = "getContrastLevelFinal"
    /\ ret' = getContrastLevelFinal(RatioArg)
    /\ UNCHANGED <<args, runnerVars, suiteVars, mappingVars, installerVars, versionVars>>

NextContrast ==
    \/ CallCalculateLuminance
    \/ CallCalculateLuminanceAnalysis
    \/ CallCalculateLuminanceFinal
    \/ CallCalculateContrastRatio
    \/ CallGetContrastLevel
    \/ CallGetContrastLevelFinal

SpecContrast == InitContrast /\ [][NextContrast]_vars

(***************************************************************************)
(* SpecRunner: run-tests.js.  main constructs a TestRunner and calls       *)
(* runAllTests; the environment decides, suite by suite, whether the       *)
(* script file exists, whether spawning throws, and which events the child *)
(* process emits.                                                          *)
(***************************************************************************)
\* the testSuites array of runAllTests
TestSuites == <<
    [name |-> "Comprehensive Test Suite", script |-> "test-suite.js"],
    [name |-> "Contrast Analysis", script |-> "test-contrast-analysis.js"],
    [name |-> "Dark Theme Validation", script |-> "test-semantic-validation.js"],
    [name |-> "Light Theme Validation", script |-> "test-light-validation.js"],
    [name |-> "Installation & Activation Tests", script |-> "test-installation-activation.js"],
    [name |-> "VS Code Integration Tests", script |-> "test-vscode-integration.js"],
    [name |-> "Manual Installation Tests", script |-> "test-manual-installation.js"]
>>

\* the code of a child killed by a signal (null in Node.js; no exit code is negative)
NullCode == 0 - 1

\* the exit codes a 'close' event carries in the model
ExitCodes == {0, 1, NullCode}

InitRunner ==
    /\ rResults = [totalTests |-> 0, passedTests |-> 0, failedTests |-> 0, testSuites |-> <<>>]
    /\ rPc = "loop" /\ rIdx = 1 /\ rChild = <<>> /\ rPromise = "none"
    /\ rReport = FALSE /\ rReturn = "none" /\ rExit = Running
    /\ HarnessIdle /\ SuiteIdle /\ MappingIdle /\ InstallerIdle /\ VersionIdle

\* results after one more failed or crashed suite
RecordNotPassed(status, error) ==
    [rResults EXCEPT !.failedTests = @ + 1,
                     !.testSuites = Append(@, [name |-> TestSuites[rIdx].name,
                                               status |-> status, error |-> error])]

\* results after one more passed suite
RecordPassed ==
    [rResults EXCEPT !.passedTests = @ + 1,
                     !.testSuites = Append(@, [name |-> TestSuites[rIdx].name,
                                               status |-> "passed", error |-> ""])]

\* runTestSuite, fs.existsSync(scriptPath) false: recorded as failed, no spawn
RunTestSuiteMissing ==
    /\ rPc = "loop" /\ rIdx <= Len(TestSuites)
    /\ rResults' = RecordNotPassed("failed", "Test file not found")
    /\ rIdx' = rIdx + 1
    /\ UNCHANGED <<rPc, rChild, rPromise, rReport, rReturn, rExit,
                   harnessVars, suiteVars, mappingVars, installerVars, versionVars>>

\* runTestSuite, the file exists: executeTest spawns the child, registers the
\* listeners and returns the pending promise, which runTestSuite awaits
RunTestSuiteSpawn ==
    /\ rPc = "loop" /\ rIdx <= Len(TestSuites)
    /\ rPc' = "await"
    /\ rChild' = <<>>
    /\ rPromise' = "pending"
    /\ UNCHANGED <<rResults, rIdx, rReport, rReturn, rExit,
                   harnessVars, suiteVars, mappingVars, installerVars, versionVars>>

\* RunTestSuiteCrash leaving the loop: the remaining suites are skipped
RunTestSuiteCrash_EndsLoop ==
    /\ rPc = "loop" /\ rIdx <= Len(TestSuites)
    /\ rResults' = RecordNotPassed("crashed", "exception")
    /\ rIdx' = Len(TestSuites) + 1
    /\ rChild' = <<>>
    /\ rPromise' = "rejected"
    /\ UNCHANGED <<rPc, rReport, rReturn, rExit,
                   harnessVars, suiteVars, mappingVars, installerVars, versionVars>>

\* runTestSuite, the file exists but the promise executor throws (spawn or the
\* registration of a listener): the promise of executeTest rejects and the
\* await throws into the catch block; no child exists
RunTestSuiteCrash ==
    /\ rPc = "loop" /\ rIdx <= Len(TestSuites)
    /\ rResults' = RecordNotPassed("crashed", "exception")
    /\ rIdx' = rIdx + 1
    /\ rChild' = <<>>
    /\ rPromise' = "rejected"
    /\ UNCHANGED <<rPc, rReport, rReturn, rExit,
                   harnessVars, suiteVars, mappingVars, installerVars, versionVars>>

Emitted(ev) == \E i \in 1..Len(rChild) : rChild[i].ev = ev

\* the last child may emit an event: while runTestSuite awaits its promise, or
\* later, after the suite was recorded and before the next child is spawned
ChildMayEmit == rPc = "await" \/ (rPc = "loop" /\ rChild # <<>>)

\* executeTest's 'close' handler with the success test inverted
closeResolves_Inverted(code) == IF code = 0 THEN "failure" ELSE "success"

\* resolve({success: code === 0, ...}) in the 'close' handler
closeResolves(code) == IF code = 0 THEN "success" ELSE "failure"

\* child.on('close'): resolves the promise unless it is settled already.  A
\* child that emitted 'error' was not spawned and does not close with code 0.
ChildClose(code) ==
    /\ ChildMayEmit /\ ~Emitted("close")
    /\ Emitted("error") => code # 0
    /\ rChild' = Append(rChild, [ev |-> "close", code |-> code])
    /\ rPromise' = IF rPromise = "pending" THEN closeResolves(code) ELSE rPromise
    /\ UNCHANGED <<rResults, rPc, rIdx, rReport, rReturn, rExit,
                   harnessVars, suiteVars, mappingVars, installerVars, versionVars>>

\* child.on('error'): resolves the promise with success false unless it is
\* settled already
ChildError ==
    /\ ChildMayEmit /\ ~Emitted("error")
    /\ rChild' = Append(rChild, [ev |-> "error", code |-> NullCode])
    /\ rPromise' = IF rPromise = "pending" THEN "failure" ELSE rPromise
    /\ UNCHANGED <<rResults, rPc, rIdx, rReport, rReturn, rExit,
                   harnessVars, suiteVars, mappingVars, installerVars, versionVars>>

\* runTestSuite resumes after the await with the value the promise resolved
\* to; the child and its settled promise stay as they are
RunTestSuiteResume ==
    /\ rPc = "await" /\ rPromise \in {"success", "failure"}
    /\ rResults' = IF rPromise = "success" THEN RecordPassed
                   ELSE RecordNotPassed("failed", "child")
    /\ rIdx' = rIdx + 1
    /\ rPc' = "loop"
    /\ UNCHANGED <<rChild, rPromise, rReport, rReturn, rExit,
                   harnessVars, suiteVars, mappingVars, installerVars, versionVars>>

\* runAllTests after the loop: printFinalSummary sets totalTests and calls
\* generateTestReport, whose fs.writeFileSync writes the report or throws; then
\* runAllTests returns failedTests === 0, or rejects with what was thrown
RunAllTestsFinish(written) ==
    /\ rPc = "loop" /\ rIdx = Len(TestSuites) + 1
    /\ rResults' = [rResults EXCEPT !.totalTests = rResults.passedTests + rResults.failedTests]
    /\ rReport' = written
    /\ rReturn' = IF ~written THEN "rejected"
                  ELSE IF rResults.failedTests = 0 THEN "true" ELSE "false"
    /\ rPc' = "settled"
    /\ UNCHANGED <<rIdx, rChild, rPromise, rExit, harnessVars, suiteVars, mappingVars, installerVars, versionVars>>

\* mutant of MainExit: the value runAllTests resolved to is not looked at
MainExit_IgnoresSuccess ==
    /\ rPc = "settled"
    /\ rExit' = IF rReturn = "rejected" THEN 1 ELSE 0
    /\ rPc' = "exited"
    /\ UNCHANGED <<rResults, rIdx, rChild, rPromise, rReport, rReturn,
                   harnessVars, suiteVars, mappingVars, installerVars, versionVars>>

\* main: .then(success => process.exit(success ? 0 : 1)).catch(() => process.exit(1))
MainExit ==
    /\ rPc = "settled"
    /\ rExit' = IF rReturn = "true" THEN 0 ELSE 1
    /\ rPc' = "exited"
    /\ UNCHANGED <<rResults, rIdx, rChild, rPromise, rReport, rReturn,
                   harnessVars, suiteVars, mappingVars, installerVars, versionVars>>

NextRunner ==
    \/ RunTestSuiteMissing
    \/ RunTestSuiteSpawn
    \/ RunTestSuiteCrash
    \/ \E code \in ExitCodes : ChildClose(code)
    \/ ChildError
    \/ RunTestSuiteResume
    \/ \E written \in BOOLEAN : RunAllTestsFinish(written)
    \/ MainExit

SpecRunner == InitRunner /\ [][NextRunner]_vars

(***************************************************************************)
(* SpecSuite: test-suite.js, ApolloThemeTestSuite.runAllTests.             *)
(*                                                                         *)
(* A theme file is missing, invalid JSON, or a parsed theme: props is the  *)
(* set of properties the JSON object has; colors and semanticTokenColors   *)
(* are objects (entries); moreColors counts further workbench entries,     *)
(* each holding the editor.background colour under a key the other theme   *)
(* uses for its further entries too; tokenColors is the array of rules, a  *)
(* rule [scope, foreground, background] with "" for an absent setting;     *)
(* moreRules counts further rules without scope or colour.                 *)
(* A semantic token value is [type, value]: a string, or a style object    *)
(* whose foreground is value.                                              *)
(***************************************************************************)
DarkFile == "apollo-dark-color-theme.json"
LightFile == "apollo-light-color-theme.json"

Rule(scope, foreground) == [scope |-> scope, foreground |-> foreground, background |-> ""]
Str(color) == [type |-> "string", value |-> color]
Style(color) == [type |-> "object", value |-> color]

GoodDark == [
    file |-> "ok",
    props |-> {"name", "type", "colors", "tokenColors", "semanticHighlighting",
               "semanticTokenColors"},
    name |-> "Apollo Dark",
    type |-> "dark",
    semanticHighlighting |-> TRUE,
    colors |-> << <<"editor.background", "#090a14">>,
                  <<"editor.foreground", "#ebede9">>,
                  <<"editor.selectionBackground", "#253a5e80">>,
                  <<"terminal.ansiRed", "#cf573c">>,
                  <<"terminal.ansiGreen", "#75a743">> >>,
    moreColors |-> 100,
    tokenColors |-> << Rule(<<"comment">>, "#819796"),
                       Rule(<<"keyword", "storage.type">>, "#4f8fba"),
                       Rule(<<"string">>, "#a8ca58"),
                       Rule(<<"constant.numeric">>, "#c65197"),
                       Rule(<<"variable">>, "#a4dddb"),
                       Rule(<<"entity.name.function", "entity.name.class", "entity.name.tag">>, "#e8c170"),
                       Rule(<<"support.type.property-name">>, "#73bed3"),
                       Rule(<<"markup.heading", "markup.bold">>, "#de9e41") >>,
    moreRules |-> 30,
    semanticTokenColors |-> << <<"function", Str("#e8c170")>>,
                               <<"class", Str("#da863e")>>,
                               <<"variable.readonly", Style("#de9e41")>> >>
]

GoodLight == [
    file |-> "ok",
    props |-> {"name", "type", "colors", "tokenColors", "semanticHighlighting",
               "semanticTokenColors"},
    name |-> "Apollo Light",
    type |-> "light",
    semanticHighlighting |-> TRUE,
    colors |-> << <<"editor.background", "#ebede9">>,
                  <<"editor.foreground", "#090a14">>,
                  <<"editor.selectionBackground", "#a4dddb80">>,
                  <<"terminal.ansiRed", "#cf573c">>,
                  <<"terminal.ansiGreen", "#75a743">>,
                  <<"terminal.ansiYellow", "#de9e41">>,
                  <<"terminal.ansiBlue", "#4f8fba">>,
                  <<"terminal.ansiCyan", "#73bed3">> >>,
    moreColors |-> 100,
    tokenColors |-> << Rule(<<"comment">>, "#394a50"),
                       Rule(<<"keyword", "storage.type">>, "#3c5e8b"),
                       Rule(<<"string">>, "#468232"),
                       Rule(<<"constant.numeric">>, "#7a367b"),
                       Rule(<<"variable">>, "#253a5e"),
                       Rule(<<"entity.name.function", "entity.name.class", "entity.name.tag">>, "#884b2b"),
                       Rule(<<"support.type.property-name">>, "#3c5e8b"),
                       Rule(<<"markup.heading", "markup.bold">>, "#752438") >>,
    moreRules |-> 30,
    semanticTokenColors |-> << <<"function", Str("#884b2b")>>,
                               <<"class", Str("#752438")>>,
                               <<"variable.readonly", Style("#be772b")>> >>
]

\* the theme files the model draws: the good theme and one change to it
ThemeVariants == {"good", "missing", "invalid", "lowSyntax", "mainAALarge", "mainFail",
                  "styleBad", "semanticBad", "workbenchBad", "tokenBad", "tokenAlpha",
                  "noColors", "noTokenColors", "noSemantic", "noName", "sparse",
                  "entityTagOnly"}

\* a colour with contrast below 3, in [3, 4.5) and an invalid colour, per theme
LowColor(base) == IF base.type = "dark" THEN "#253a5e" ELSE "#c7cfcc"
MidColor(base) == "#577277"
BadColor == "#xyz"

ThemeVariant(base, v) ==
    CASE v = "good" -> base
      [] v = "missing" -> [base EXCEPT !.file = "missing"]
      [] v = "invalid" -> [base EXCEPT !.file = "invalid"]
      [] v = "lowSyntax" -> [base EXCEPT !.tokenColors[3].foreground = LowColor(base)]
      [] v = "mainAALarge" -> [base EXCEPT !.colors[2] = <<"editor.foreground", MidColor(base)>>]
      [] v = "mainFail" -> [base EXCEPT !.colors[2] = <<"editor.foreground", LowColor(base)>>]
      [] v = "styleBad" -> [base EXCEPT !.semanticTokenColors[3] = <<"variable.readonly", Style(BadColor)>>]
      [] v = "semanticBad" -> [base EXCEPT !.semanticTokenColors[1] = <<"function", Str(BadColor)>>]
      [] v = "workbenchBad" -> [base EXCEPT !.colors[4] = <<"terminal.ansiRed", "#cf573c8">>]
      [] v = "tokenBad" -> [base EXCEPT !.tokenColors[4].foreground = BadColor]
      [] v = "tokenAlpha" -> [base EXCEPT !.tokenColors[1].foreground = @ \o "cc",
                                          !.tokenColors[2].background = "#10141f"]
      [] v = "noColors" -> [base EXCEPT !.props = @ \ {"colors"}]
      [] v = "noTokenColors" -> [base EXCEPT !.props = @ \ {"tokenColors"}]
      [] v = "noSemantic" -> [base EXCEPT !.props = @ \ {"semanticTokenColors", "semanticHighlighting"},
                                          !.semanticHighlighting = FALSE]
      [] v = "noName" -> [base EXCEPT !.props = @ \ {"name"}]
      [] v = "sparse" -> [base EXCEPT !.moreColors = 0, !.moreRules = 0,
                                      !.tokenColors = SubSeq(@, 1, 3),
                                      !.semanticTokenColors = SubSeq(@, 1, 1)]
      [] v = "entityTagOnly" -> [base EXCEPT !.tokenColors[6].scope = <<"entity.name.tag">>]

\* package.json: contributes.themes (when present) and engines.vscode
DarkEntry == [label |-> "Apollo Dark", uiTheme |-> "vs-dark",
              path |-> "./themes/apollo-dark-color-theme.json"]
LightEntry == [label |-> "Apollo Light", uiTheme |-> "vs",
               path |-> "./themes/apollo-light-color-theme.json"]

GoodPackage == [file |-> "ok", hasThemes |-> TRUE, themes |-> <<DarkEntry, LightEntry>>,
                engines |-> TRUE]

PackageVariants == {"good", "missing", "noThemes", "noEngines", "wrongUi", "oneTheme",
                    "noLabel", "otherLabel"}

PackageVariant(v) ==
    CASE v = "good" -> GoodPackage
      [] v = "missing" -> [GoodPackage EXCEPT !.file = "missing"]
      [] v = "noThemes" -> [GoodPackage EXCEPT !.hasThemes = FALSE]
      [] v = "noEngines" -> [GoodPackage EXCEPT !.engines = FALSE]
      [] v = "wrongUi" -> [GoodPackage EXCEPT !.themes[1].uiTheme = "vs"]
      [] v = "oneTheme" -> [GoodPackage EXCEPT !.themes = <<DarkEntry>>]
      [] v = "noLabel" -> [GoodPackage EXCEPT !.themes[2].label = Undefined]
      [] v = "otherLabel" -> [GoodPackage EXCEPT !.themes[1].label = "Apollo Midnight",
                                                 !.themes[2].path = "./themes/gone.json"]

\* the six syntax test files of testSyntaxHighlighting
SyntaxTestFiles == <<"test-syntax.js", "test-syntax.ts", "test-syntax.html",
                     "test-syntax.css", "test-syntax.json", "test-syntax.md">>

SyntaxFileSet == {SyntaxTestFiles[i] : i \in 1..Len(SyntaxTestFiles)}

\* the test files on disk, each absent, holding the generated test content
\* or holding other content
AllGenerated == [f \in SyntaxFileSet |-> "generated"]

\* mutant of writeTestFiles: a file that exists is written too
writeTestFiles_Overwrites(syntax, n) ==
    [f \in SyntaxFileSet |->
        IF \E i \in 1..n : SyntaxTestFiles[i] = f THEN "generated" ELSE syntax[f]]

\* the files on disk when the loop of testSyntaxHighlighting has passed test
\* file n: fs.writeFileSync wrote each of them that did not exist
writeTestFiles(syntax, n) ==
    [f \in SyntaxFileSet |->
        IF syntax[f] = "absent" /\ \E i \in 1..n : SyntaxTestFiles[i] = f
        THEN "generated" ELSE syntax[f]]

\* logPass / logFail / logWarning / logError on a value of this.results
logPass(res, message) ==
    [res EXCEPT !.passed = @ + 1,
                !.tests = Append(@, [type |-> "pass", message |-> message])]

logFail(res, message) ==
    [res EXCEPT !.failed = @ + 1,
                !.tests = Append(@, [type |-> "fail", message |-> message])]

\* logWarning counting the warning as a failure
logWarning_CountsAsFailure(res, message) ==
    [res EXCEPT !.failed = @ + 1,
                !.tests = Append(@, [type |-> "warning", message |-> message])]

logWarning(res, message) ==
    [res EXCEPT !.warnings = @ + 1,
                !.tests = Append(@, [type |-> "warning", message |-> message])]

logError(res, context, message) ==
    [res EXCEPT !.failed = @ + 1,
                !.tests = Append(@, [type |-> "error", message |-> context \o ": " \o message])]

\* Object.keys(theme.colors).length
ColorCount(theme) == Len(theme.colors) + theme.moreColors

\* theme.tokenColors.length
RuleCount(theme) == Len(theme.tokenColors) + theme.moreRules

\* testThemeStructure, the body of the loop for one theme file
structureOfTheme(res, themeFile, theme) ==
    IF theme.file # "ok" THEN logFail(res, themeFile \o ": JSON parsing failed")
    ELSE
    LET missingProps == {"name", "type", "colors", "tokenColors"} \ theme.props
        r1 == IF missingProps = {}
              THEN logPass(res, themeFile \o ": All required properties present")
              ELSE logFail(res, themeFile \o ": Missing properties")
        r2 == IF "type" \in theme.props /\ theme.type \in {"dark", "light"}
              THEN logPass(r1, themeFile \o ": Valid theme type")
              ELSE logFail(r1, themeFile \o ": Invalid theme type")
        r3 == IF theme.semanticHighlighting /\ "semanticTokenColors" \in theme.props
              THEN logPass(r2, themeFile \o ": Semantic highlighting properly configured")
              ELSE logWarning(r2, themeFile \o ": Semantic highlighting not fully configured")
        r4 == IF ColorCount(theme) >= 100
              THEN logPass(r3, themeFile \o ": Comprehensive workbench colors")
              ELSE logWarning(r3, themeFile \o ": Limited workbench colors")
        r5 == IF RuleCount(theme) >= 30
              THEN logPass(r4, themeFile \o ": Comprehensive syntax highlighting")
              ELSE logWarning(r4, themeFile \o ": Limited syntax highlighting")
    IN IF "colors" \notin theme.props
       THEN logFail(r3, themeFile \o ": JSON parsing failed")      \* Object.keys(undefined) throws
       ELSE IF "tokenColors" \notin theme.props
            THEN logFail(r4, themeFile \o ": JSON parsing failed") \* undefined.length throws
            ELSE r5

\* testThemeStructure
testThemeStructure(res, files) ==
    structureOfTheme(structureOfTheme(res, DarkFile, files.dark), LightFile, files.light)

\* the invalidColors array of testColorFormatCompliance for a theme with colors
\* and tokenColors: one element per colour the test flags
invalidColorsOf(theme) ==
    LET wb == {<<"workbench", i>> : i \in {j \in 1..Len(theme.colors) :
                    ~isValidColor(theme.colors[j][2])}}
        fg == {<<"foreground", i>> : i \in {j \in 1..Len(theme.tokenColors) :
                    /\ theme.tokenColors[j].foreground # ""
                    /\ ~isValidColor(theme.tokenColors[j].foreground)}}
        bg == {<<"background", i>> : i \in {j \in 1..Len(theme.tokenColors) :
                    /\ theme.tokenColors[j].background # ""
                    /\ ~isValidColor(theme.tokenColors[j].background)}}
        st == IF "semanticTokenColors" \in theme.props
              THEN {<<"semantic", i>> : i \in {j \in 1..Len(theme.semanticTokenColors) :
                        /\ theme.semanticTokenColors[j][2].type = "string"
                        /\ ~isValidColor(theme.semanticTokenColors[j][2].value)}}
              ELSE {}
    IN wb \cup fg \cup bg \cup st

\* testColorFormatCompliance, the body of the loop for one theme file
colorFormatOfTheme(res, themeFile, theme) ==
    IF theme.file # "ok" \/ "colors" \notin theme.props \/ "tokenColors" \notin theme.props
    THEN logFail(res, themeFile \o ": Color validation failed")
    ELSE IF invalidColorsOf(theme) = {}
         THEN logPass(res, themeFile \o ": All colors have valid format")
         ELSE logFail(res, themeFile \o ": Invalid color formats found:")

\* testColorFormatCompliance
testColorFormatCompliance(res, files) ==
    colorFormatOfTheme(colorFormatOfTheme(res, DarkFile, files.dark), LightFile, files.light)

\* scope.split('.')[0]
SplitFirst(scope) ==
    LET dots == {i \in 1..Len(scope) : CharAt(scope, i) = "."}
    IN IF dots = {} THEN scope
       ELSE Slice(scope, 0, (CHOOSE i \in dots : \A j \in dots : i <= j) - 1)

essentialScopes == <<"comment", "keyword", "string", "constant.numeric", "variable",
                     "entity.name.function", "entity.name.class", "entity.name.tag",
                     "support.type.property-name", "markup.heading", "markup.bold">>

\* the definedScopes set of testSyntaxHighlighting
definedScopes(theme) ==
    UNION {{theme.tokenColors[i].scope[k] : k \in 1..Len(theme.tokenColors[i].scope)} :
               i \in 1..Len(theme.tokenColors)}

\* the coveredScopes array of testSyntaxHighlighting, as the set of its indices
coveredScopes(theme) ==
    {e \in 1..Len(essentialScopes) :
        \E defined \in definedScopes(theme) : Includes(defined, SplitFirst(essentialScopes[e]))}

\* testSyntaxHighlighting, the body of the coverage loop for one theme file
coverageOfTheme(res, themeFile, theme) ==
    IF theme.file # "ok" \/ "tokenColors" \notin theme.props
    THEN logFail(res, themeFile \o ": Syntax highlighting validation failed")
    ELSE IF Cardinality(coveredScopes(theme)) = Len(essentialScopes)
         THEN logPass(res, themeFile \o ": All essential syntax scopes covered")
         ELSE logWarning(res, themeFile \o ": Missing scopes")

\* testSyntaxHighlighting, the loop over the test files up to file n: a file
\* that exists is logged, a missing one is written and logged
RECURSIVE ensureTestFiles(_, _, _)
ensureTestFiles(res, existing, n) ==
    IF n = 0 THEN res
    ELSE LET r == ensureTestFiles(res, existing, n - 1)
         IN IF existing[SyntaxTestFiles[n]] = "absent"
            THEN logPass(r, "Created test file: " \o SyntaxTestFiles[n])
            ELSE logPass(r, "Test file exists: " \o SyntaxTestFiles[n])

\* testSyntaxHighlighting when no write throws
testSyntaxHighlighting(res, files) ==
    coverageOfTheme(
        coverageOfTheme(ensureTestFiles(res, files.syntax, Len(SyntaxTestFiles)),
                        DarkFile, files.dark),
        LightFile, files.light)

\* testSyntaxHighlighting when fs.writeFileSync throws on the first missing
\* test file n: the files before it are logged, the exception leaves the test
syntaxHighlightingThrows(res, files, n) ==
    ensureTestFiles(res, files.syntax, n - 1)

\* the first test file that does not exist (0: all exist)
firstMissing(files) ==
    LET missing == {n \in 1..Len(SyntaxTestFiles) : files.syntax[SyntaxTestFiles[n]] = "absent"}
    IN IF missing = {} THEN 0 ELSE CHOOSE n \in missing : \A m \in missing : n <= m

\* theme.colors[key] of a theme with colors holding key
ColorOf(theme, key) == Get(theme.colors, key)

\* testContrastRatios: the rules counted in lowContrastCount
lowContrastRules(theme) ==
    {i \in 1..Len(theme.tokenColors) :
        /\ theme.tokenColors[i].foreground # ""
        /\ RatioLT(calculateContrastRatio(ColorOf(theme, "editor.background"),
                                          theme.tokenColors[i].foreground), 3, 1)}

\* testContrastRatios, the body of the loop for one theme
contrastOfTheme(res, themeFile, themeName, theme) ==
    IF theme.file # "ok" \/ "colors" \notin theme.props
    THEN logFail(res, themeFile \o ": Contrast validation failed")
    ELSE
    LET mainContrast == calculateContrastRatio(ColorOf(theme, "editor.background"),
                                               ColorOf(theme, "editor.foreground"))
        r1 == CASE mainContrastLog(mainContrast) = "pass" ->
                     logPass(res, themeName \o ": Main editor contrast (AA compliant)")
                [] mainContrastLog(mainContrast) = "warning" ->
                     logWarning(res, themeName \o ": Main editor contrast (AA Large only)")
                [] OTHER ->
                     logFail(res, themeName \o ": Main editor contrast (Below AA standards)")
    IN IF "tokenColors" \notin theme.props
       THEN logFail(r1, themeFile \o ": Contrast validation failed")
       ELSE IF lowContrastRules(theme) = {}
            THEN logPass(r1, themeName \o ": All syntax colors meet minimum contrast")
            ELSE logWarning(r1, themeName \o ": syntax colors below 3:1 contrast")

\* testContrastRatios
testContrastRatios(res, files) ==
    contrastOfTheme(contrastOfTheme(res, DarkFile, "Apollo Dark", files.dark),
                    LightFile, "Apollo Light", files.light)

\* fs.existsSync(path.join(__dirname, theme.path))
themePathExists(files, path) ==
    \/ path = "./themes/" \o DarkFile /\ files.dark.file # "missing"
    \/ path = "./themes/" \o LightFile /\ files.light.file # "missing"

\* testThemeLoading: the expected uiTheme of a contributed theme entry
expectedUITheme(theme) == IF Includes(theme.label, "Dark") THEN "vs-dark" ELSE "vs"

\* testThemeLoading, the forEach over the entries up to n; thrown is set
\* when an entry without label made theme.label.includes throw
RECURSIVE loadingOfEntries(_, _, _, _)
loadingOfEntries(res, files, themes, n) ==
    IF n = 0 THEN [res |-> res, thrown |-> FALSE]
    ELSE LET before == loadingOfEntries(res, files, themes, n - 1)
             theme == themes[n]
             r1 == IF themePathExists(files, theme.path)
                   THEN logPass(before.res, "Theme file exists: " \o theme.path)
                   ELSE logFail(before.res, "Theme file missing: " \o theme.path)
         IN IF before.thrown THEN before
            ELSE IF theme.label = Undefined THEN [res |-> r1, thrown |-> TRUE]
            ELSE IF theme.uiTheme = expectedUITheme(theme)
                 THEN [res |-> logPass(r1, theme.label \o ": Correct UI theme mapping"),
                       thrown |-> FALSE]
                 ELSE [res |-> logFail(r1, theme.label \o ": Incorrect UI theme mapping"),
                       thrown |-> FALSE]

\* testThemeLoading
testThemeLoading(res, files) ==
    LET package == files.package
        r1 == IF Len(package.themes) = 2
              THEN logPass(res, "Package.json: Both themes configured")
              ELSE logFail(res, "Package.json: Expected 2 themes")
        entries == loadingOfEntries(r1, files, package.themes, Len(package.themes))
        r2 == IF package.hasThemes THEN entries.res
              ELSE logFail(res, "Package.json: Theme contributions not found")
    IN IF package.file # "ok" THEN logFail(res, "Theme loading validation failed")
       ELSE IF package.hasThemes /\ entries.thrown
            THEN logFail(r2, "Theme loading validation failed")
            ELSE IF package.engines
                 THEN logPass(r2, "VS Code engine compatibility")
                 ELSE logFail(r2, "Package.json: VS Code engine compatibility not specified")

accentColors == <<"73bed3", "a8ca58", "de9e41", "cf573c", "4f8fba", "75a743">>

\* the colour strings JSON.stringify(theme) holds
themeStrings(theme) ==
    LET wb == IF "colors" \in theme.props
              THEN {theme.colors[i][2] : i \in 1..Len(theme.colors)} ELSE {}
        tc == IF "tokenColors" \in theme.props
              THEN {theme.tokenColors[i].foreground : i \in 1..Len(theme.tokenColors)}
                   \cup {theme.tokenColors[i].background : i \in 1..Len(theme.tokenColors)}
              ELSE {}
        st == IF "semanticTokenColors" \in theme.props
              THEN {theme.semanticTokenColors[i][2].value : i \in 1..Len(theme.semanticTokenColors)}
              ELSE {}
    IN wb \cup tc \cup st

\* JSON.stringify(theme).includes(color)
themeHasColor(theme, color) == \E s \in themeStrings(theme) : Includes(s, color)

\* (common / Math.max(a, b) * 100).toFixed(1) >= 90
consistencyAtLeast90(common, a, b) ==
    /\ Max(a, b) > 0
    /\ common * 2000 >= 1799 * Max(a, b)

\* the number of keys the two objects share
commonKeyCount(o1, o2) == Cardinality({i \in 1..Len(o1) : HasKey(o2, o1[i][1])})

\* testCrossThemeConsistency
testCrossThemeConsistency(res, files) ==
    LET darkTheme == files.dark
        lightTheme == files.light
        consistentAccents == Cardinality({i \in 1..Len(accentColors) :
                                 /\ themeHasColor(darkTheme, accentColors[i])
                                 /\ themeHasColor(lightTheme, accentColors[i])})
        r1 == IF consistentAccents * 10 >= Len(accentColors) * 8
              THEN logPass(res, "Accent color consistency")
              ELSE logWarning(res, "Accent color consistency: Only some colors shared")
        commonKeys == commonKeyCount(darkTheme.colors, lightTheme.colors)
                      + Min(darkTheme.moreColors, lightTheme.moreColors)
        r2 == IF consistencyAtLeast90(commonKeys, ColorCount(darkTheme), ColorCount(lightTheme))
              THEN logPass(r1, "Workbench structure consistency")
              ELSE logWarning(r1, "Workbench structure consistency below 90%")
        r3 == IF consistencyAtLeast90(
                     commonKeyCount(darkTheme.semanticTokenColors, lightTheme.semanticTokenColors),
                     Len(darkTheme.semanticTokenColors), Len(lightTheme.semanticTokenColors))
              THEN logPass(r2, "Semantic token consistency")
              ELSE logWarning(r2, "Semantic token consistency below 90%")
    IN IF darkTheme.file # "ok" \/ lightTheme.file # "ok"
       THEN logFail(res, "Cross-theme consistency validation failed")
       ELSE IF "colors" \notin darkTheme.props \/ "colors" \notin lightTheme.props
            THEN logFail(r1, "Cross-theme consistency validation failed")
            ELSE IF /\ "semanticTokenColors" \in darkTheme.props
                    /\ "semanticTokenColors" \in lightTheme.props
                 THEN r3
                 ELSE r2

(***************************************************************************)
(* The suite as a process: runAllTests awaits the six tests in turn.       *)
(***************************************************************************)
SyntaxSets == {AllGenerated,
               [f \in SyntaxFileSet |-> IF f \in {"test-syntax.css", "test-syntax.md"}
                                        THEN "absent" ELSE "other"],
               [f \in SyntaxFileSet |-> "absent"]}

\* package.json and the test files on disk: one of the two as in the repository
Surroundings ==
    {<<p, AllGenerated>> : p \in PackageVariants} \cup {<<"good", s>> : s \in SyntaxSets}

InitSuite ==
    /\ HarnessIdle /\ RunnerIdle /\ MappingIdle /\ InstallerIdle /\ VersionIdle
    /\ sResults = [passed |-> 0, failed |-> 0, warnings |-> 0, tests |-> <<>>]
    /\ sPc = "test1"
    /\ sReturn = "none"
    /\ \E d \in ThemeVariants, l \in ThemeVariants, e \in Surroundings :
          sFiles = [dark |-> ThemeVariant(GoodDark, d), light |-> ThemeVariant(GoodLight, l),
                    package |-> PackageVariant(e[1]), syntax |-> e[2]]

SuiteStep(from, to, results) ==
    /\ sPc = from
    /\ sPc' = to
    /\ sResults' = results
    /\ UNCHANGED <<sFiles, sReturn, harnessVars, runnerVars, mappingVars, installerVars, versionVars>>

TestThemeStructure == SuiteStep("test1", "test2", testThemeStructure(sResults, sFiles))

TestColorFormatCompliance ==
    SuiteStep("test2", "test3", testColorFormatCompliance(sResults, sFiles))

\* the test files that were missing exist afterwards
TestSyntaxHighlighting ==
    /\ sPc = "test3"
    /\ sPc' = "test4"
    /\ sResults' = testSyntaxHighlighting(sResults, sFiles)
    /\ sFiles' = [sFiles EXCEPT !.syntax = writeTestFiles(@, Len(SyntaxTestFiles))]
    /\ UNCHANGED <<sReturn, harnessVars, runnerVars, mappingVars, installerVars, versionVars>>

\* fs.writeFileSync throws: the catch of runAllTests logs the error and
\* runAllTests returns false
TestSyntaxHighlightingThrows ==
    /\ sPc = "test3"
    /\ firstMissing(sFiles) # 0
    /\ sPc' = "done"
    /\ sResults' = logError(syntaxHighlightingThrows(sResults, sFiles, firstMissing(sFiles)),
                            "Test Suite Execution", "EACCES: permission denied")
    /\ sFiles' = [sFiles EXCEPT !.syntax = writeTestFiles(@, firstMissing(sFiles) - 1)]
    /\ sReturn' = "false"
    /\ UNCHANGED <<harnessVars, runnerVars, mappingVars, installerVars, versionVars>>

TestContrastRatios == SuiteStep("test4", "test5", testContrastRatios(sResults, sFiles))

TestThemeLoading == SuiteStep("test5", "test6", testThemeLoading(sResults, sFiles))

TestCrossThemeConsistency ==
    SuiteStep("test6", "summary", testCrossThemeConsistency(sResults, sFiles))

\* printSummary; return this.results.failed === 0
RunAllTestsReturn ==
    /\ sPc = "summary"
    /\ sPc' = "done"
    /\ sReturn' = IF sResults.failed = 0 THEN "true" ELSE "false"
    /\ UNCHANGED <<sResults, sFiles, harnessVars, runnerVars, mappingVars, installerVars, versionVars>>

NextSuite ==
    \/ TestThemeStructure
    \/ TestColorFormatCompliance
    \/ TestSyntaxHighlighting
    \/ TestSyntaxHighlightingThrows
    \/ TestContrastRatios
    \/ TestThemeLoading
    \/ TestCrossThemeConsistency
    \/ RunAllTestsReturn

SpecSuite == InitSuite /\ [][NextSuite]_vars

(***************************************************************************)
(* SpecSyntaxFiles: testSyntaxHighlighting on its own, called by a new     *)
(* suite object each time the script is run, on any state of the six test  *)
(* files.                                                                  *)
(***************************************************************************)
InitSyntaxFiles ==
    /\ HarnessIdle /\ RunnerIdle /\ MappingIdle /\ InstallerIdle /\ VersionIdle
    /\ sResults = [passed |-> 0, failed |-> 0, warnings |-> 0, tests |-> <<>>]
    /\ sPc = "test3"
    /\ sReturn = "none"
    /\ \E syntax \in [SyntaxFileSet -> {"absent", "generated", "other"}] :
          sFiles = [dark |-> GoodDark, light |-> GoodLight,
                    package |-> GoodPackage, syntax |-> syntax]

\* the script is run again: a new suite object, the same disk
RunSuiteAgain ==
    /\ sPc \in {"test4", "done"}
    /\ sPc' = "test3"
    /\ sResults' = [passed |-> 0, failed |-> 0, warnings |-> 0, tests |-> <<>>]
    /\ sReturn' = "none"
    /\ UNCHANGED <<sFiles, harnessVars, runnerVars, mappingVars, installerVars, versionVars>>

NextSyntaxFiles ==
    \/ TestSyntaxHighlighting
    \/ TestSyntaxHighlightingThrows
    \/ RunSuiteAgain

SpecSyntaxFiles == InitSyntaxFiles /\ [][NextSyntaxFiles]_vars

(***************************************************************************)
(* SpecMapping: the three checks of a contributed theme entry's uiTheme.   *)
(* An entry of contributes.themes is [label, uiTheme, path]; type is the   *)
(* type property of the theme file at path.                                *)
(***************************************************************************)
EntryLabels == {"Apollo Dark", "Apollo Light", "Apollo Midnight", "Solarized Dark", ""}
EntryUiThemes == {"vs-dark", "vs", "hc-black"}
EntryTypes == {"dark", "light", "hc"}

ThemeEntries ==
    {[label |-> l, uiTheme |-> u, path |-> "./themes/theme.json", type |-> t] :
        l \in EntryLabels, u \in EntryUiThemes, t \in EntryTypes}

\* testThemeLoading, the UI theme mapping check of one entry
suiteMappingCheck(theme) ==
    IF theme.uiTheme = expectedUITheme(theme) THEN "accept" ELSE "reject"

\* installation test 1.3, the body of the loop over the entries
installationMappingCheck(theme) ==
    IF theme.label = "" \/ theme.uiTheme = "" \/ theme.path = "" THEN "reject"
    ELSE IF theme.label = "Apollo Dark" /\ theme.uiTheme # "vs-dark" THEN "reject"
    ELSE IF theme.label = "Apollo Light" /\ theme.uiTheme # "vs" THEN "reject"
    ELSE "accept"

\* manual-installation test 4.1, the body of the loop over the entries
manualMappingCheck(theme) ==
    LET expectedUiTheme == IF theme.type = "dark" THEN "vs-dark" ELSE "vs"
    IN IF theme.label = "" THEN "reject"
       ELSE IF theme.uiTheme # expectedUiTheme THEN "reject"
       ELSE "accept"

InitMapping ==
    /\ HarnessIdle /\ RunnerIdle /\ SuiteIdle /\ InstallerIdle /\ VersionIdle
    /\ \E e \in ThemeEntries :
          pkg = [theme |-> e, suite |-> "none", installation |-> "none", manual |-> "none"]

TestThemeLoadingMapping ==
    /\ pkg.suite = "none"
    /\ pkg' = [pkg EXCEPT !.suite = suiteMappingCheck(pkg.theme)]
    /\ UNCHANGED <<harnessVars, runnerVars, suiteVars, installerVars, versionVars>>

TestExtensionInstallationMapping ==
    /\ pkg.installation = "none"
    /\ pkg' = [pkg EXCEPT !.installation = installationMappingCheck(pkg.theme)]
    /\ UNCHANGED <<harnessVars, runnerVars, suiteVars, installerVars, versionVars>>

TestPostInstallationValidationMapping ==
    /\ pkg.manual = "none"
    /\ pkg' = [pkg EXCEPT !.manual = manualMappingCheck(pkg.theme)]
    /\ UNCHANGED <<harnessVars, runnerVars, suiteVars, installerVars, versionVars>>

NextMapping ==
    \/ TestThemeLoadingMapping
    \/ TestExtensionInstallationMapping
    \/ TestPostInstallationValidationMapping

SpecMapping == InitMapping /\ [][NextMapping]_vars

(***************************************************************************)
(* SpecSemantic: the semantic token validators, test-semantic-consistency  *)
(* (testSemanticTokenConsistency), test-semantic-validation                *)
(* (validateThemeStructure) and test-light-validation                      *)
(* (validateLightThemeStructure), each called once on the theme files.     *)
(***************************************************************************)
essentialTypes == <<"namespace", "class", "interface", "function", "method",
                    "variable", "property", "parameter", "type", "enum",
                    "string", "number", "comment", "keyword", "operator">>

\* a theme file that defines every essential semantic token type and two
\* modifier rules
FullSemantic(base) ==
    [base EXCEPT !.semanticTokenColors =
        [i \in 1..Len(essentialTypes) |->
            <<essentialTypes[i], Str(base.tokenColors[(i % 8) + 1].foreground)>>]
        \o << <<"variable.readonly", Style(base.tokenColors[1].foreground)>>,
              <<"*.deprecated", Style(base.tokenColors[2].foreground)>> >>]

SemanticVariants == {"good", "alpha", "bad", "styleBad", "fewer", "noHighlight",
                     "darkBackground", "lightForeground", "badBackground", "entityTagOnly",
                     "noSemantic", "missing", "invalid", "noColors", "noTokenColors"}

SemanticVariant(base, v) ==
    LET full == FullSemantic(base)
    IN CASE v = "alpha" -> [full EXCEPT !.semanticTokenColors[4][2].value = @ \o "cc"]
         [] v = "bad" -> [full EXCEPT !.semanticTokenColors[4][2].value = BadColor]
         [] v = "styleBad" -> [full EXCEPT !.semanticTokenColors[16][2].value = BadColor]
         [] v = "fewer" -> [full EXCEPT !.semanticTokenColors = SubSeq(@, 2, Len(@))]
         [] v = "noHighlight" -> [full EXCEPT !.semanticHighlighting = FALSE]
         [] v = "darkBackground" -> [full EXCEPT !.colors[1] = <<"editor.background", "#090a14">>]
         [] v = "lightForeground" -> [full EXCEPT !.colors[2] = <<"editor.foreground", "#ebede9">>]
         [] v = "badBackground" -> [full EXCEPT !.colors[1] = <<"editor.background", BadColor>>]
         [] OTHER -> ThemeVariant(full, v)

\* the loop over Object.entries(theme.semanticTokenColors) of the three
\* validators: the entries pushed to the list of invalid colours
semanticInvalidColors(theme) ==
    {theme.semanticTokenColors[i] : i \in {j \in 1..Len(theme.semanticTokenColors) :
        /\ theme.semanticTokenColors[j][2].type = "string"
        /\ ~isValidHexColor(theme.semanticTokenColors[j][2].value)}}

\* Object.keys(theme.semanticTokenColors), as a set
semanticKeys(theme) ==
    {theme.semanticTokenColors[i][1] : i \in 1..Len(theme.semanticTokenColors)}

\* testSemanticTokenConsistency: the value returned and colorFormatIssues
testSemanticTokenConsistency(darkTheme, lightTheme) ==
    LET hasTokens(t) == "semanticTokenColors" \in t.props
        both == hasTokens(darkTheme) /\ hasTokens(lightTheme)
        test1 == darkTheme.semanticHighlighting /\ lightTheme.semanticHighlighting
        essential == {essentialTypes[i] : i \in 1..Len(essentialTypes)}
        test3 == both => /\ semanticKeys(darkTheme) = semanticKeys(lightTheme)
                         /\ essential \subseteq semanticKeys(darkTheme)
                         /\ essential \subseteq semanticKeys(lightTheme)
        issues == {<<"Dark theme", e>> : e \in semanticInvalidColors(darkTheme)}
                  \cup {<<"Light theme", e>> : e \in semanticInvalidColors(lightTheme)}
        modifiers(t) == {k \in semanticKeys(t) : Includes(k, ".") \/ Includes(k, "*")}
        test6 == modifiers(darkTheme) = modifiers(lightTheme)
        thrown == [result |-> FALSE, issues |-> {}]
    IN IF darkTheme.file # "ok" \/ lightTheme.file # "ok" THEN thrown
       ELSE IF ~both THEN thrown                     \* Object.entries(undefined) throws
       ELSE IF "colors" \notin darkTheme.props \/ "colors" \notin lightTheme.props
            THEN thrown                              \* colors['editor.background'] throws
       ELSE [result |-> test1 /\ test3 /\ issues = {} /\ test6, issues |-> issues]

\* validateThemeStructure of the dark theme validator: the value returned
\* and invalidColors
validateThemeStructure(theme) ==
    IF \/ theme.file # "ok"
       \/ ~theme.semanticHighlighting
       \/ "semanticTokenColors" \notin theme.props
    THEN [result |-> FALSE, issues |-> {}]
    ELSE [result |-> "tokenColors" \in theme.props /\ "colors" \in theme.props,
          issues |-> semanticInvalidColors(theme)]

\* isLightColor of the light theme validator: (0.299 r + 0.587 g + 0.114 b)
\* / 255 > 0.5, with both sides multiplied by 255000; a comparison with NaN
\* is false
isLightColor(hexColor) ==
    LET r == ParseInt16(Slice(hexColor, 1, 3))
        g == ParseInt16(Slice(hexColor, 3, 5))
        b == ParseInt16(Slice(hexColor, 5, 7))
    IN IF r = NaN \/ g = NaN \/ b = NaN THEN FALSE
       ELSE 299 * r + 587 * g + 114 * b > 127500

isDarkColor(hexColor) == ~isLightColor(hexColor)

\* the essentialScopes array of the light theme validator
lightEssentialScopes == SubSeq(essentialScopes, 1, 8)

\* the missingScopes array of the light theme validator, as a set
lightMissingScopes(theme) ==
    {lightEssentialScopes[e] : e \in {k \in 1..Len(lightEssentialScopes) :
        ~\E defined \in definedScopes(theme) :
            Includes(defined, SplitFirst(lightEssentialScopes[k]))}}

\* the lines the light theme validator prints with a check mark for the
\* syntax scopes and for the light theme specific validation
lightScopeLines(theme) ==
    IF lightMissingScopes(theme) = {}
    THEN {"All essential syntax highlighting scopes are covered"} ELSE {}

lightSpecificLines(theme) ==
    LET editorBg == Get(theme.colors, "editor.background")
        editorFg == Get(theme.colors, "editor.foreground")
    IN (IF editorBg # Undefined /\ isLightColor(editorBg)
        THEN {"Editor background is appropriately light"} ELSE {})
       \cup (IF editorFg # Undefined /\ isDarkColor(editorFg)
             THEN {"Editor foreground is appropriately dark"} ELSE {})

\* validateLightThemeStructure of the light theme validator: the value
\* returned, invalidColors and the check lines printed
validateLightThemeStructure(theme) ==
    IF \/ theme.file # "ok"
       \/ ~theme.semanticHighlighting
       \/ "semanticTokenColors" \notin theme.props
    THEN [result |-> FALSE, issues |-> {}, printed |-> {}]
    ELSE IF "tokenColors" \notin theme.props
    THEN [result |-> FALSE, issues |-> semanticInvalidColors(theme), printed |-> {}]
    ELSE IF "colors" \notin theme.props
    THEN [result |-> FALSE, issues |-> semanticInvalidColors(theme),
          printed |-> lightScopeLines(theme)]
    ELSE [result |-> TRUE, issues |-> semanticInvalidColors(theme),
          printed |-> lightScopeLines(theme) \cup lightSpecificLines(theme)]

InitSemantic ==
    /\ fn = "" /\ args = <<>> /\ ret = <<>>
    /\ RunnerIdle /\ MappingIdle /\ InstallerIdle /\ VersionIdle
    /\ sResults = [passed |-> 0, failed |-> 0, warnings |-> 0, tests |-> <<>>]
    /\ sPc = "idle" /\ sReturn = "none"
    /\ \E d \in SemanticVariants, l \in SemanticVariants :
          sFiles = [dark |-> SemanticVariant(GoodDark, d),
                    light |-> SemanticVariant(GoodLight, l),
                    package |-> GoodPackage, syntax |-> AllGenerated]

SemanticCall(name, value) ==
    /\ fn = ""
    /\ fn' = name
    /\ ret' = value
    /\ UNCHANGED <<args, runnerVars, suiteVars, mappingVars, installerVars, versionVars>>

CallTestSemanticTokenConsistency ==
    SemanticCall("testSemanticTokenConsistency",
                 testSemanticTokenConsistency(sFiles.dark, sFiles.light))

CallValidateThemeStructure ==
    SemanticCall("validateThemeStructure", validateThemeStructure(sFiles.dark))

CallValidateLightThemeStructure ==
    SemanticCall("validateLightThemeStructure", validateLightThemeStructure(sFiles.light))

NextSemantic ==
    \/ CallTestSemanticTokenConsistency
    \/ CallValidateThemeStructure
    \/ CallValidateLightThemeStructure

SpecSemantic == InitSemantic /\ [][NextSemantic]_vars

(***************************************************************************)
(* SpecInstaller: test-installation-activation.js and                      *)
(* test-manual-installation.js.  runAllTests calls runTest once per        *)
(* declared test, in order.  The vsce tests run child processes through    *)
(* executeCommand; what any other test function does is an input: it       *)
(* returns true, undefined or false, throws, or returns a promise that     *)
(* rejects.                                                                *)
(***************************************************************************)
InstallationTests == <<
    "Package.json exists", "Package.json has required extension fields",
    "Theme contributions are properly configured",
    "Extension can be packaged (vsce validation)",
    "Theme files exist and are accessible", "Theme files have valid JSON structure",
    "Theme files have required properties for activation", "Theme activation simulation",
    "Theme configuration supports persistence", "Theme files are stable and consistent",
    "Theme metadata supports persistence",
    "Both themes are properly configured for switching", "Theme switching compatibility",
    "Theme contrast compatibility for switching", "Extension metadata completeness",
    "Extension icon and assets", "Theme files have proper permissions",
    "Theme files have proper encoding" >>

ManualTests == <<
    "Extension structure validation", "Package.json validation for installation",
    "Theme file validation for installation", "Check vsce availability",
    "Dry run packaging validation", "Package size estimation", "Extension ID validation",
    "Installation command simulation", "Theme activation simulation",
    "Theme availability validation", "Theme switching validation",
    "Extension uninstallation simulation" >>

DeclaredTests(tester) == IF tester = "installation" THEN InstallationTests ELSE ManualTests

VsceTests == {"Extension can be packaged (vsce validation)", "Check vsce availability",
              "Dry run packaging validation"}

\* mutant of runTestSettle: a test function that returns false counts as passed
runTestSettle_FalsePasses(results, testName, outcome) ==
    IF outcome \in {"true", "undefined", "false"}
    THEN [results EXCEPT !.passedTests = @ + 1,
                         !.tests = Append(@, [name |-> testName, status |-> "passed"])]
    ELSE [results EXCEPT !.failedTests = @ + 1,
                         !.tests = Append(@, [name |-> testName, status |-> "failed",
                                              error |-> "test function threw"])]

\* mutant of runTestSettle: a failed test is recorded but not counted
runTestSettle_FailureNotCounted(results, testName, outcome) ==
    IF outcome \in {"true", "undefined"}
    THEN [results EXCEPT !.passedTests = @ + 1,
                         !.tests = Append(@, [name |-> testName, status |-> "passed"])]
    ELSE [results EXCEPT !.tests = Append(@, [name |-> testName, status |-> "failed",
                                              error |-> "test function threw"])]

\* runTest after `await testFunction()`: outcome is what the test function did
runTestSettle(results, testName, outcome) ==
    IF outcome \in {"true", "undefined"}
    THEN [results EXCEPT !.passedTests = @ + 1,
                         !.tests = Append(@, [name |-> testName, status |-> "passed"])]
    ELSE [results EXCEPT !.failedTests = @ + 1,
                         !.tests = Append(@, [name |-> testName, status |-> "failed",
                                              error |-> IF outcome = "false"
                                                        THEN "Test function returned false"
                                                        ELSE "test function threw"])]

\* runTest of a test function that does not wait for a child process
runTest(results, testName, outcome) ==
    runTestSettle([results EXCEPT !.totalTests = @ + 1], testName, outcome)

\* executeCommand: the promise after the child emitted the event
\* [ev |-> "close", code] or [ev |-> "error"]
executeCommandSettle(promise, event) ==
    IF promise # "pending" THEN promise
    ELSE IF event.ev = "close" /\ event.code = 0 THEN "resolved" ELSE "rejected"

\* mutant of vsceTestNext: a vsce ls that fails makes the test function return false
vsceTestNext_LsFails(testName, phase, promise) ==
    IF phase = "ls" THEN (IF promise = "resolved" THEN "true" ELSE "false")
    ELSE IF promise = "rejected" \/ testName = "Check vsce availability" THEN "true"
    ELSE "ls"

\* a vsce test function once the promise of executeCommand settled: it runs
\* 'npx vsce ls' next ("ls") or returns true
vsceTestNext(testName, phase, promise) ==
    IF phase = "ls" THEN "true"
    ELSE IF promise = "rejected" THEN "true"
    ELSE IF testName = "Check vsce availability" THEN "true"
    ELSE "ls"

\* what the test functions other than the vsce tests do: all return true, or
\* one or two of them do something else
TestOutcomes(tester) ==
    LET n == Len(DeclaredTests(tester))
        allTrue == [i \in 1..n |-> "true"]
    IN {allTrue}
       \cup {[allTrue EXCEPT ![i] = o] :
                i \in 1..n, o \in {"undefined", "false", "throws", "rejects"}}
       \cup {[allTrue EXCEPT ![1] = o, ![n] = "false"] : o \in {"throws", "rejects"}}

InitInstaller ==
    /\ HarnessIdle /\ RunnerIdle /\ SuiteIdle /\ MappingIdle /\ VersionIdle
    /\ \E tester \in {"installation", "manual"} : \E outcomes \in TestOutcomes(tester) :
          inst = [tester |-> tester, outcomes |-> outcomes,
                  results |-> [totalTests |-> 0, passedTests |-> 0, failedTests |-> 0,
                               tests |-> <<>>],
                  idx |-> 1, phase |-> "idle", child |-> <<>>, promise |-> "none",
                  report |-> FALSE, ret |-> "none"]

CurrentTest == DeclaredTests(inst.tester)[inst.idx]

InstallerUnchanged == UNCHANGED <<harnessVars, runnerVars, suiteVars, mappingVars, versionVars>>

\* runAllTests: await this.runTest(...) of a test that runs no child process
InstallerRunTest ==
    /\ inst.phase = "idle" /\ inst.idx <= Len(DeclaredTests(inst.tester))
    /\ CurrentTest \notin VsceTests
    /\ inst' = [inst EXCEPT !.results = runTest(@, CurrentTest, inst.outcomes[inst.idx]),
                            !.idx = @ + 1]
    /\ InstallerUnchanged

\* runTest of a vsce test up to its first await: totalTests++, and
\* executeCommand('npx', ['vsce', '--version']) spawns the child
InstallerRunVsceTest ==
    /\ inst.phase = "idle" /\ inst.idx <= Len(DeclaredTests(inst.tester))
    /\ CurrentTest \in VsceTests
    /\ inst' = [inst EXCEPT !.results.totalTests = @ + 1,
                            !.phase = "version", !.child = <<>>, !.promise = "pending"]
    /\ InstallerUnchanged

CommandEmitted(ev) == \E i \in 1..Len(inst.child) : inst.child[i].ev = ev

\* child.on('close'): the exit code is not 0 when the child could not be spawned
CommandClose(code) ==
    /\ inst.phase \in {"version", "ls"}
    /\ ~CommandEmitted("close")
    /\ CommandEmitted("error") => code # 0
    /\ inst' = [inst EXCEPT
                  !.child = Append(@, [ev |-> "close", code |-> code]),
                  !.promise = executeCommandSettle(@, [ev |-> "close", code |-> code])]
    /\ InstallerUnchanged

\* child.on('error'): the child could not be spawned
CommandError ==
    /\ inst.phase \in {"version", "ls"}
    /\ inst.child = <<>>
    /\ inst' = [inst EXCEPT
                  !.child = Append(@, [ev |-> "error", code |-> NullCode]),
                  !.promise = executeCommandSettle(@, [ev |-> "error", code |-> NullCode])]
    /\ InstallerUnchanged

\* the vsce test function resumes after its await: it runs 'npx vsce ls' or
\* returns, and runTest records the result
VsceTestResume ==
    /\ inst.phase \in {"version", "ls"}
    /\ inst.promise \in {"resolved", "rejected"}
    /\ LET next == vsceTestNext(CurrentTest, inst.phase, inst.promise)
       IN inst' = IF next = "ls"
                  THEN [inst EXCEPT !.phase = "ls", !.child = <<>>, !.promise = "pending"]
                  ELSE [inst EXCEPT !.results = runTestSettle(@, CurrentTest, next),
                                    !.idx = @ + 1, !.phase = "idle"]
    /\ InstallerUnchanged

\* runAllTests after the last test: printSummary writes the report (written,
\* or fs.writeFileSync throws and the promise rejects), then
\* return this.results.failedTests === 0
installerReturn(results, written) ==
    IF ~written THEN "rejected"
    ELSE IF results.failedTests = 0 THEN "true" ELSE "false"

InstallerRunAllTestsReturn(written) ==
    /\ inst.phase = "idle" /\ inst.idx = Len(DeclaredTests(inst.tester)) + 1
    /\ inst' = [inst EXCEPT !.phase = "returned", !.report = written,
                            !.ret = installerReturn(inst.results, written)]
    /\ InstallerUnchanged

NextInstaller ==
    \/ InstallerRunTest
    \/ InstallerRunVsceTest
    \/ \E code \in ExitCodes : CommandClose(code)
    \/ CommandError
    \/ VsceTestResume
    \/ \E written \in BOOLEAN : InstallerRunAllTestsReturn(written)

SpecInstaller == InitInstaller /\ [][NextInstaller]_vars

(***************************************************************************)
(* SpecVersion: test-vscode-versions.js, ApolloThemeVSCodeVersionTest.     *)
(*                                                                         *)
(* ver.package is package.json: file, and engines.vscode when hasEngines.  *)
(* ver.dark and ver.light are the two theme files in the order of          *)
(* this.themeFiles. ver.disk tells whether the report can be written.      *)
(* A property of results.compatibility that was never assigned is Absent.  *)
(* Messages are kept where the code has a fixed text; an error result      *)
(* carries error |-> TRUE in place of the text of error.message.           *)
(***************************************************************************)
Absent == [absent |-> TRUE]

DecDigits == {"0", "1", "2", "3", "4", "5", "6", "7", "8", "9"}

\* the number of consecutive characters of s from position i that are in class
ClassRun(s, i, class) ==
    LET runs == {k \in 0..(Len(s) - i + 1) :
                    \A j \in 0..(k - 1) : CharAt(s, i + j) \in class}
    IN IF i > Len(s) THEN 0 ELSE CHOOSE k \in runs : \A l \in runs : l <= k

\* the character classes [\\^>=<~] and [\\d\\.] as the source writes them:
\* inside a class \\ is a backslash, so the second class holds a backslash,
\* the letter d and a dot
OperatorClass == {"\\", "^", ">", "=", "<", "~"}
VersionClass == {"\\", "d", "."}

\* engineVersion.match(/([\\^>=<~]*)([\\d\\.]+)/): the leftmost match, the
\* first group as long as the second still matches
versionMatch(engineVersion) ==
    LET fits(i, j) == ClassRun(engineVersion, i + j, VersionClass) >= 1
        starts == {i \in 1..Len(engineVersion) :
                      \E j \in 0..ClassRun(engineVersion, i, OperatorClass) : fits(i, j)}
    IN IF starts = {} THEN [matched |-> FALSE]
       ELSE LET i == CHOOSE a \in starts : \A b \in starts : a <= b
                lens == {j \in 0..ClassRun(engineVersion, i, OperatorClass) : fits(i, j)}
                j == CHOOSE a \in lens : \A b \in lens : b <= a
                n == ClassRun(engineVersion, i + j, VersionClass)
            IN [matched |-> TRUE,
                operator |-> SubSeq(engineVersion, i, i + j - 1),
                version |-> SubSeq(engineVersion, i + j, i + j + n - 1)]

\* String.prototype.split(sep) for a one-character separator
StringSplit(s, sep) ==
    LET at == {i \in 1..Len(s) : CharAt(s, i) = sep}
        n == Cardinality(at)
        Nth(k) == CHOOSE d \in at : Cardinality({e \in at : e < d}) = k - 1
        from(k) == IF k = 1 THEN 1 ELSE Nth(k - 1) + 1
        to(k) == IF k = n + 1 THEN Len(s) ELSE Nth(k) - 1
    IN [k \in 1..(n + 1) |-> SubSeq(s, from(k), to(k))]

RECURSIVE DecValue(_)
DecValue(s) ==
    IF s = "" THEN 0
    ELSE 10 * DecValue(SubSeq(s, 1, Len(s) - 1)) + HexValue(CharAt(s, Len(s)))

\* Number(s) for the pieces of a split: "" is 0, decimal digits are their
\* value, any other text here is NaN
ToNumber(s) ==
    IF \A i \in 1..Len(s) : CharAt(s, i) \in DecDigits THEN DecValue(s) ELSE NaN

\* const [major, minor] = version.split('.').map(Number): a missing element
\* is undefined, which compares like NaN
NumberAt(parts, i) == IF i <= Len(parts) THEN ToNumber(parts[i]) ELSE NaN

\* comparisons of numbers: false when an operand is NaN
JsGT(a, b) == a # NaN /\ a > b
JsGE(a, b) == a # NaN /\ a >= b
JsLT(a, b) == a # NaN /\ a < b
JsEQ(a, b) == a # NaN /\ a = b

\* testCurrentVersionCompatibility: the value of results.compatibility.engineVersion
testCurrentVersionCompatibility(package) ==
    IF package.file # "ok" THEN [status |-> "error", error |-> TRUE]
    ELSE IF ~package.hasEngines \/ package.vscode = ""
    THEN [status |-> "error", message |-> "No VS Code engine version specified"]
    ELSE LET match == versionMatch(package.vscode)
         IN IF ~match.matched
            THEN [status |-> "error", message |-> "Invalid version format: " \o package.vscode]
            ELSE LET parts == StringSplit(match.version, ".")
                     major == NumberAt(parts, 1)
                     minor == NumberAt(parts, 2)
                     isModern == JsGT(major, 1) \/ (JsEQ(major, 1) /\ JsGE(minor, 60))
                     isTooOld == JsLT(major, 1) \/ (JsEQ(major, 1) /\ JsLT(minor, 50))
                 IN [status |-> IF isModern THEN "good"
                                ELSE IF isTooOld THEN "outdated" ELSE "acceptable",
                     currentRequirement |-> package.vscode,
                     parsedVersion |-> match.version,
                     operator |-> IF match.operator = "" THEN "exact" ELSE match.operator,
                     isModern |-> isModern,
                     isTooOld |-> isTooOld]

\* JSON.parse(fs.readFileSync(themePath)) throws for a missing or invalid file
ReadThrows(theme) == theme.file # "ok"
ThemeFilesOf(v) == <<v.dark, v.light>>
AnyReadThrows(v) == \E i \in 1..2 : ReadThrows(ThemeFilesOf(v)[i])

\* themeData.colors[colorKey] is truthy
HasColor(theme, colorKey) ==
    "colors" \in theme.props /\ HasKey(theme.colors, colorKey) /\ Get(theme.colors, colorKey) # ""

\* Object.keys(themeData.colors).length
ColorKeyCount(theme) == Len(theme.colors) + theme.moreColors

\* a semantic token value that is an object with fontStyle, foreground or background
IsAdvancedValue(value) == value.type = "object" /\ value.value # ""

AdvancedValueCount(theme) ==
    IF "semanticTokenColors" \in theme.props
    THEN Cardinality({i \in 1..Len(theme.semanticTokenColors) :
                         IsAdvancedValue(theme.semanticTokenColors[i][2])})
    ELSE 0

ErrorResult == [supported |-> FALSE, error |-> TRUE]

\* testSemanticHighlighting
testSemanticHighlighting(v) ==
    IF AnyReadThrows(v) THEN ErrorResult
    ELSE LET files == ThemeFilesOf(v)
             hasSemanticHighlighting ==
                 \E i \in 1..2 : "semanticHighlighting" \in files[i].props
             hasSemanticTokenColors ==
                 \E i \in 1..2 : /\ "semanticTokenColors" \in files[i].props
                                 /\ Len(files[i].semanticTokenColors) > 0
             supported == hasSemanticHighlighting /\ hasSemanticTokenColors
         IN [supported |-> supported,
             message |-> IF supported THEN "Semantic highlighting fully implemented"
                         ELSE "Missing semantic highlighting features"]

modernColors == <<"statusBarItem.prominentBackground", "statusBarItem.prominentForeground",
                  "button.secondaryBackground", "button.secondaryForeground",
                  "charts.foreground", "charts.lines">>

\* testModernWorkbenchColors: 0 / 0 is NaN, and NaN >= 80 is false
testModernWorkbenchColors(v) ==
    IF AnyReadThrows(v) THEN ErrorResult
    ELSE LET files == ThemeFilesOf(v)
             checked == {i \in 1..2 : "colors" \in files[i].props}
             supportedColors ==
                 Cardinality({p \in checked \X (1..Len(modernColors)) :
                                 HasColor(files[p[1]], modernColors[p[2]])})
             totalChecked == Cardinality(checked) * Len(modernColors)
         IN [supported |-> totalChecked > 0 /\ 100 * supportedColors >= 80 * totalChecked,
             supportedColors |-> supportedColors,
             totalChecked |-> totalChecked]

requiredSemanticTokens == <<"namespace", "class", "function", "variable", "property",
                            "keyword", "comment", "string", "number">>

\* testSemanticTokenColors
testSemanticTokenColors(v) ==
    IF AnyReadThrows(v) THEN ErrorResult
    ELSE LET files == ThemeFilesOf(v)
             checked == {i \in 1..2 : "semanticTokenColors" \in files[i].props}
             implementedTokens ==
                 Cardinality({p \in checked \X (1..Len(requiredSemanticTokens)) :
                                 HasKey(files[p[1]].semanticTokenColors,
                                        requiredSemanticTokens[p[2]])})
             totalTokens == Cardinality(checked) * Len(requiredSemanticTokens)
         IN [supported |-> totalTokens > 0 /\ 100 * implementedTokens >= 90 * totalTokens,
             implementedTokens |-> implementedTokens,
             totalTokens |-> totalTokens]

\* themeData.tokenColors && themeData.tokenColors.length > 50
HasManyRules(theme) ==
    "tokenColors" \in theme.props /\ Len(theme.tokenColors) + theme.moreRules > 50

\* testColorCustomization
testColorCustomization(v) ==
    IF AnyReadThrows(v) THEN ErrorResult
    ELSE LET files == ThemeFilesOf(v)
             featureCount ==
                 AdvancedValueCount(files[1]) + AdvancedValueCount(files[2])
                 + Cardinality({i \in 1..2 : HasManyRules(files[i])})
         IN [supported |-> featureCount > 0,
             message |-> IF featureCount > 0
                         THEN "Advanced customization features implemented"
                         ELSE "Basic color customization only",
             featureCount |-> featureCount]

\* testFeatureCompatibility: the value of results.compatibility.features
testFeatureCompatibility(v) ==
    [semanticHighlighting |-> testSemanticHighlighting(v),
     modernWorkbenchColors |-> testModernWorkbenchColors(v),
     semanticTokenColors |-> testSemanticTokenColors(v),
     colorCustomization |-> testColorCustomization(v)]

deprecatedColors == <<"editorIndentGuide.background", "editorIndentGuide.activeBackground">>

\* testDeprecatedFeatures: results.compatibility.deprecated is assigned inside
\* the try block, after both files were read; the catch only logs
testDeprecatedFeatures(v, compatibility) ==
    IF AnyReadThrows(v) THEN compatibility
    ELSE LET files == ThemeFilesOf(v)
             found == {p \in (1..2) \X (1..Len(deprecatedColors)) :
                          HasColor(files[p[1]], deprecatedColors[p[2]])}
         IN [compatibility EXCEPT !.deprecated = [count |-> Cardinality(found)]]

\* the predicates that the has...() methods hand to this.themeFiles.every
SemanticHighlightingOn(theme) == theme.semanticHighlighting = TRUE /\ "semanticHighlighting" \in theme.props
AdvancedSemanticTokensOn(theme) ==
    /\ "semanticTokenColors" \in theme.props
    /\ AdvancedValueCount(theme) > 0
    /\ Len(theme.semanticTokenColors) >= 20
ComprehensiveColorsOn(theme) == "colors" \in theme.props /\ ColorKeyCount(theme) >= 150
AllColorsOn(theme, keys) == \A i \in 1..Len(keys) : HasColor(theme, keys[i])

chartColors == <<"charts.foreground", "charts.lines", "charts.red", "charts.blue">>
debugColors == <<"debugToolBar.background", "debugExceptionWidget.background">>
gitColors == <<"gitDecoration.addedResourceForeground",
               "gitDecoration.modifiedResourceForeground",
               "gitDecoration.deletedResourceForeground">>

FeaturePredicate(k, theme) ==
    CASE k = 1 -> SemanticHighlightingOn(theme)
      [] k = 2 -> AdvancedSemanticTokensOn(theme)
      [] k = 3 -> ComprehensiveColorsOn(theme)
      [] k = 4 -> AllColorsOn(theme, chartColors)
      [] k = 5 -> AllColorsOn(theme, debugColors)
      [] k = 6 -> AllColorsOn(theme, gitColors)

\* this.themeFiles.every(themeFile => ...) without a try block: the files are
\* read in order and every stops at the first file whose predicate is false,
\* so a file is read only when all files before it passed
EveryThrows(v, k) ==
    LET files == ThemeFilesOf(v)
    IN \/ ReadThrows(files[1])
       \/ FeaturePredicate(k, files[1]) /\ ReadThrows(files[2])

EveryResult(v, k) == \A i \in 1..2 : FeaturePredicate(k, ThemeFilesOf(v)[i])

\* testModernFeatures throws when one of its six checks throws
testModernFeaturesThrows(v) == \E k \in 1..6 : EveryThrows(v, k)

\* testModernFeatures: the value of results.compatibility.modernFeatures
testModernFeatures(v) == [adopted |-> [k \in 1..6 |-> EveryResult(v, k)]]

\* generateVersionRecommendations: the types of the recommendations pushed
generateVersionRecommendations(compatibility) ==
    LET engineStatus == compatibility.engineVersion
        deprecated == compatibility.deprecated
        modernFeatures == compatibility.modernFeatures
        adoptedCount == Cardinality({k \in 1..6 : modernFeatures.adopted[k]})
    IN (IF engineStatus # Absent /\ engineStatus.status # "error" /\ engineStatus.isTooOld
        THEN <<"engine_version">> ELSE <<>>)
       \o (IF deprecated # Absent /\ deprecated.count > 0
           THEN <<"deprecated_features">> ELSE <<>>)
       \o (IF modernFeatures # Absent /\ 10 * adoptedCount < 8 * 6
           THEN <<"modern_features">> ELSE <<>>)
       \o <<"performance">>

RECURSIVE DecString(_)
\* the decimal text of a natural number
DecString(n) ==
    LET digit == CHOOSE ch \in DecDigits : HexValue(ch) = n % 10
    IN IF n < 10 THEN digit ELSE DecString(n \div 10) \o digit

VersionText(major, minor, patch) ==
    DecString(major) \o "." \o DecString(minor) \o "." \o DecString(patch)

\* the values of engines.vscode tried: an optional operator and
\* MAJOR.MINOR.PATCH, and texts of other shapes
EngineOperators == {"", "^", "~", ">=", "<", "="}
EngineMajors == {0, 1, 2}
EngineMinors == {0, 49, 50, 59, 60, 80}
EnginePatches == {0, 3}
OtherEngines == {"", "*", "latest", "1.x", "d.d", "1.80", "^\\d.5", "vscode", ">=.\\"}
EngineInputs ==
    {op \o VersionText(ma, mi, pa) :
        op \in EngineOperators, ma \in EngineMajors, mi \in EngineMinors, pa \in EnginePatches}
    \cup OtherEngines

VersionPackage(vscode) == [file |-> "ok", hasEngines |-> TRUE, vscode |-> vscode]
VersionPackages ==
    {VersionPackage(e) : e \in EngineInputs}
    \cup {[VersionPackage("^1.80.0") EXCEPT !.hasEngines = FALSE],
          [VersionPackage("^1.80.0") EXCEPT !.file = "missing"],
          [VersionPackage("^1.80.0") EXCEPT !.file = "invalid"]}

VersionThemeVariants == {"good", "missing", "invalid", "noColors", "noSemantic", "sparse"}

\* the state after the constructor: either package.json varies and the theme
\* files are the good ones, or the theme files vary
InitVersion ==
    /\ \E package \in VersionPackages, dv \in VersionThemeVariants,
          lv \in VersionThemeVariants, disk \in {"writable", "readonly"} :
          /\ package = VersionPackage("^1.80.0") \/ (dv = "good" /\ lv = "good" /\ disk = "writable")
          /\ ver = [package |-> package,
                    dark |-> ThemeVariant(GoodDark, dv),
                    light |-> ThemeVariant(GoodLight, lv),
                    disk |-> disk,
                    pc |-> "step1",
                    compatibility |-> [engineVersion |-> Absent, features |-> Absent,
                                       deprecated |-> Absent, modernFeatures |-> Absent],
                    recommendations |-> <<>>,
                    steps |-> <<>>,
                    report |-> FALSE,
                    ret |-> "none"]
    /\ HarnessIdle /\ RunnerIdle /\ SuiteIdle /\ MappingIdle /\ InstallerIdle

VersionUnchanged == UNCHANGED <<harnessVars, runnerVars, suiteVars, mappingVars, installerVars>>

VersionIs(pc) == ver # <<>> /\ ver.pc = pc

\* await this.testCurrentVersionCompatibility()
TestCurrentVersionCompatibility ==
    /\ VersionIs("step1")
    /\ ver' = [ver EXCEPT !.compatibility.engineVersion =
                              testCurrentVersionCompatibility(ver.package),
                          !.steps = Append(@, "testCurrentVersionCompatibility"),
                          !.pc = "step2"]
    /\ VersionUnchanged

\* await this.testFeatureCompatibility()
TestFeatureCompatibility ==
    /\ VersionIs("step2")
    /\ ver' = [ver EXCEPT !.compatibility.features = testFeatureCompatibility(ver),
                          !.steps = Append(@, "testFeatureCompatibility"),
                          !.pc = "step3"]
    /\ VersionUnchanged

\* await this.testDeprecatedFeatures()
TestDeprecatedFeatures ==
    /\ VersionIs("step3")
    /\ ver' = [ver EXCEPT !.compatibility = testDeprecatedFeatures(ver, @),
                          !.steps = Append(@, "testDeprecatedFeatures"),
                          !.pc = "step4"]
    /\ VersionUnchanged

\* await this.testModernFeatures(): a throw inside it rejects runAllTests
TestModernFeatures ==
    /\ VersionIs("step4")
    /\ ver' = IF testModernFeaturesThrows(ver)
              THEN [ver EXCEPT !.steps = Append(@, "testModernFeatures"),
                               !.pc = "done", !.ret = "rejected"]
              ELSE [ver EXCEPT !.compatibility.modernFeatures = testModernFeatures(ver),
                               !.steps = Append(@, "testModernFeatures"),
                               !.pc = "step5"]
    /\ VersionUnchanged

\* await this.generateVersionRecommendations()
GenerateVersionRecommendations ==
    /\ VersionIs("step5")
    /\ ver' = [ver EXCEPT !.recommendations =
                              generateVersionRecommendations(ver.compatibility),
                          !.steps = Append(@, "generateVersionRecommendations"),
                          !.pc = "save"]
    /\ VersionUnchanged

\* this.saveResults(); return this.results: fs.writeFileSync throws when the
\* report cannot be written
SaveResults ==
    /\ VersionIs("save")
    /\ ver' = IF ver.disk = "writable"
              THEN [ver EXCEPT !.report = TRUE, !.pc = "done", !.ret = "results"]
              ELSE [ver EXCEPT !.pc = "done", !.ret = "rejected"]
    /\ VersionUnchanged

NextVersion ==
    \/ TestCurrentVersionCompatibility
    \/ TestFeatureCompatibility
    \/ TestDeprecatedFeatures
    \/ TestModernFeatures
    \/ GenerateVersionRecommendations
    \/ SaveResults

SpecVersion == InitVersion /\ [][NextVersion]_vars

(***************************************************************************)
(* SpecRating: run-performance-compatibility-tests.js, the two ratings of  *)
(* ApolloThemeTestRunner.                                                   *)
(*                                                                         *)
(* args is this.results: performance, crossPlatform and vscodeVersions,    *)
(* each null when present is FALSE. An issue count is a number or NaN for  *)
(* a property that is undefined. crossPlatform.tests is kept as the        *)
(* number of sub-tests whose passed is truthy and the number of the        *)
(* others, which is all that the flattening and the filter look at.        *)
(* engineVersion is "absent", "error" (a record without isTooOld),         *)
(* "tooOld" or "fine"; deprecated is NaN when absent, else its count.      *)
(***************************************************************************)
\* calculatePerformanceRating with the two deductions for optimizationIssues swapped
calculatePerformanceRating_SwappedDeductions(results) ==
    LET performance == results.performance
        first == IF ~performance.present THEN 0
                 ELSE IF JsGT(performance.optimizationIssues, 10) THEN 1
                 ELSE IF JsGT(performance.optimizationIssues, 5) THEN 2 ELSE 0
        second == IF performance.present /\ JsGT(performance.compatibilityIssues, 5)
                  THEN 1 ELSE 0
    IN Max(1, 5 - first - second)

calculatePerformanceRating(results) ==
    LET performance == results.performance
        first == IF ~performance.present THEN 0
                 ELSE IF JsGT(performance.optimizationIssues, 10) THEN 2
                 ELSE IF JsGT(performance.optimizationIssues, 5) THEN 1 ELSE 0
        second == IF performance.present /\ JsGT(performance.compatibilityIssues, 5)
                  THEN 1 ELSE 0
    IN Max(1, 5 - first - second)

calculateCompatibilityRating(results) ==
    LET crossPlatform == results.crossPlatform
        vscodeVersions == results.vscodeVersions
        passedTests == crossPlatform.passed
        totalTests == crossPlatform.passed + crossPlatform.failed
        \* passRate = totalTests > 0 ? passedTests / totalTests : 1
        below(p) == totalTests > 0 /\ 10 * passedTests < p * totalTests
        platform == IF ~(crossPlatform.present /\ crossPlatform.hasTests) THEN 0
                    ELSE IF below(8) THEN 2
                    ELSE IF below(9) THEN 1 ELSE 0
        checked == vscodeVersions.present /\ vscodeVersions.hasCompatibility
        engine == IF checked /\ vscodeVersions.engineVersion = "tooOld" THEN 1 ELSE 0
        deprecated == IF checked /\ JsGT(vscodeVersions.deprecated, 0) THEN 1 ELSE 0
    IN Max(1, 5 - platform - engine - deprecated)

NoPerformance == [present |-> FALSE, optimizationIssues |-> NaN, compatibilityIssues |-> NaN]
NoCrossPlatform == [present |-> FALSE, hasTests |-> FALSE, passed |-> 0, failed |-> 0]
NoVersions == [present |-> FALSE, hasCompatibility |-> FALSE,
               engineVersion |-> "absent", deprecated |-> NaN]

MaxOptimizationIssues == 12
MaxCompatibilityIssues == 7
MaxSubTests == 5
MaxDeprecated == 2

PerformanceInputs ==
    {NoPerformance} \cup
    [present : {TRUE},
     optimizationIssues : {NaN} \cup 0..MaxOptimizationIssues,
     compatibilityIssues : {NaN} \cup 0..MaxCompatibilityIssues]

CrossPlatformInputs ==
    {NoCrossPlatform, [NoCrossPlatform EXCEPT !.present = TRUE]} \cup
    [present : {TRUE}, hasTests : {TRUE}, passed : 0..MaxSubTests, failed : 0..MaxSubTests]

VersionsInputs ==
    {NoVersions, [NoVersions EXCEPT !.present = TRUE]} \cup
    [present : {TRUE}, hasCompatibility : {TRUE},
     engineVersion : {"absent", "error", "tooOld", "fine"},
     deprecated : {NaN} \cup 0..MaxDeprecated]

\* results with more issues or more failed sub-tests than results has
MoreIssues(results) ==
    {[results EXCEPT !.performance.optimizationIssues = @ + 1] : x \in
        {x \in {1} : /\ results.performance.present
                     /\ results.performance.optimizationIssues # NaN
                     /\ results.performance.optimizationIssues < MaxOptimizationIssues}}
    \cup
    {[results EXCEPT !.performance.compatibilityIssues = @ + 1] : x \in
        {x \in {1} : /\ results.performance.present
                     /\ results.performance.compatibilityIssues # NaN
                     /\ results.performance.compatibilityIssues < MaxCompatibilityIssues}}
    \cup
    {[results EXCEPT !.crossPlatform.failed = @ + 1] : x \in
        {x \in {1} : /\ results.crossPlatform.hasTests
                     /\ results.crossPlatform.failed < MaxSubTests}}
    \cup
    {[results EXCEPT !.crossPlatform.failed = @ + 1, !.crossPlatform.passed = @ - 1] : x \in
        {x \in {1} : /\ results.crossPlatform.hasTests
                     /\ results.crossPlatform.passed > 0
                     /\ results.crossPlatform.failed < MaxSubTests}}
    \cup
    {[results EXCEPT !.vscodeVersions.deprecated = @ + 1] : x \in
        {x \in {1} : /\ results.vscodeVersions.hasCompatibility
                     /\ results.vscodeVersions.deprecated # NaN
                     /\ results.vscodeVersions.deprecated < MaxDeprecated}}
    \cup
    {[results EXCEPT !.vscodeVersions.engineVersion = "tooOld"] : x \in
        {x \in {1} : /\ results.vscodeVersions.hasCompatibility
                     /\ results.vscodeVersions.engineVersion = "fine"}}

InitRating ==
    /\ fn = "" /\ ret = <<>>
    /\ \E performance \in PerformanceInputs, crossPlatform \in CrossPlatformInputs,
          vscodeVersions \in VersionsInputs :
          /\ performance = NoPerformance
             \/ (crossPlatform = NoCrossPlatform /\ vscodeVersions = NoVersions)
          /\ args = [performance |-> performance, crossPlatform |-> crossPlatform,
                     vscodeVersions |-> vscodeVersions]
    /\ RunnerIdle /\ SuiteIdle /\ MappingIdle /\ InstallerIdle /\ VersionIdle

RatingOf(name, results) ==
    IF name = "calculatePerformanceRating" THEN calculatePerformanceRating(results)
    ELSE calculateCompatibilityRating(results)

CallCalculatePerformanceRating ==
    /\ fn = ""
    /\ fn' = "calculatePerformanceRating"
    /\ ret' = calculatePerformanceRating(args)
    /\ UNCHANGED <<args, runnerVars, suiteVars, mappingVars, installerVars, versionVars>>

CallCalculateCompatibilityRating ==
    /\ fn = ""
    /\ fn' = "calculateCompatibilityRating"
    /\ ret' = calculateCompatibilityRating(args)
    /\ UNCHANGED <<args, runnerVars, suiteVars, mappingVars, installerVars, versionVars>>

\* the same rating is calculated again for results with more issues
RateAgainWithMoreIssues ==
    /\ fn \in {"calculatePerformanceRating", "calculateCompatibilityRating"}
    /\ \E results \in MoreIssues(args) :
          /\ args' = results
          /\ ret' = RatingOf(fn, results)
    /\ UNCHANGED <<fn, runnerVars, suiteVars, mappingVars, installerVars, versionVars>>

NextRating ==
    \/ CallCalculatePerformanceRating
    \/ CallCalculateCompatibilityRating
    \/ RateAgainWithMoreIssues

SpecRating == InitRating /\ [][NextRating]_vars

(***************************************************************************)
(* SpecStages: run-performance-compatibility-tests.js,                     *)
(* ApolloThemeTestRunner.runAllTests.                                       *)
(*                                                                         *)
(* ver is the version tester of the third stage, with the fields of the    *)
(* runner beside it: stage is the stage runAllTests is at, phase tells     *)
(* whether that stage is to begin, runs, or the process has ended;         *)
(* started and completed list the stages that began and that returned;     *)
(* comprehensive tells whether comprehensive-test-report.json was          *)
(* written; exit is the exit status.  test-performance-optimization.js,    *)
(* test-cross-platform-compatibility.js and optimize-theme-structure.js    *)
(* are not part of the sources: their stages return or throw, as           *)
(* outcomes says.                                                          *)
(***************************************************************************)
\* the stages of runAllTests in the order of its try block
StageOrder == <<"performance", "crossPlatform", "vscodeVersions", "optimization", "summary">>

StageOutcomes == [{"performance", "crossPlatform", "optimization", "summary"} -> {"ok", "throws"}]

InitStages ==
    /\ \E dv \in {"good", "missing", "noSemantic"}, lv \in {"good", "invalid"},
          disk \in {"writable", "readonly"}, outcomes \in StageOutcomes :
          ver = [package |-> VersionPackage("^1.80.0"),
                 dark |-> ThemeVariant(GoodDark, dv),
                 light |-> ThemeVariant(GoodLight, lv),
                 disk |-> disk,
                 pc |-> "idle",
                 compatibility |-> [engineVersion |-> Absent, features |-> Absent,
                                    deprecated |-> Absent, modernFeatures |-> Absent],
                 recommendations |-> <<>>,
                 steps |-> <<>>,
                 report |-> FALSE,
                 ret |-> "none",
                 outcomes |-> outcomes,
                 stage |-> 1,
                 phase |-> "before",
                 started |-> <<>>,
                 completed |-> <<>>,
                 comprehensive |-> FALSE,
                 exit |-> Running]
    /\ HarnessIdle /\ RunnerIdle /\ SuiteIdle /\ MappingIdle /\ InstallerIdle

StageIs(phase) == ver # <<>> /\ ver.pc \in {"idle", "done"} /\ ver.phase = phase

\* a catch block that logs the error and lets the process end normally
StageThrew_ExitsZero(v) == [v EXCEPT !.phase = "exited", !.exit = 0]

\* catch (error) { console.error(...); process.exit(1); }
StageThrew(v) == [v EXCEPT !.phase = "exited", !.exit = 1]

\* a stage of runAllTests begins: the tester is constructed and its method
\* called; the third stage starts runAllTests of the version tester
StageBegin ==
    /\ StageIs("before")
    /\ ver' = [ver EXCEPT !.phase = "running",
                          !.started = Append(@, StageOrder[ver.stage]),
                          !.pc = IF ver.stage = 3 THEN "step1" ELSE @]
    /\ VersionUnchanged

\* the awaited promise of the first, second or fourth stage settles
StageEnd ==
    /\ StageIs("running") /\ ver.stage \in {1, 2, 4}
    /\ ver' = IF ver.outcomes[StageOrder[ver.stage]] = "throws" THEN StageThrew(ver)
              ELSE [ver EXCEPT !.phase = "before", !.stage = @ + 1,
                               !.completed = Append(@, StageOrder[ver.stage])]
    /\ VersionUnchanged

\* this.results.vscodeVersions = await vscodeVersionTester.runAllTests()
VersionStageEnd ==
    /\ StageIs("running") /\ ver.stage = 3 /\ ver.pc = "done"
    /\ ver' = IF ver.ret = "rejected" THEN StageThrew(ver)
              ELSE [ver EXCEPT !.phase = "before", !.stage = 4,
                               !.completed = Append(@, "vscodeVersions")]
    /\ VersionUnchanged

\* this.generateSummaryReport(): it ends with saveComprehensiveReport, whose
\* fs.writeFileSync writes the report; a throw before or in the write leaves
\* no report; after it runAllTests returns and the process ends with status 0
GenerateSummaryReport ==
    /\ StageIs("running") /\ ver.stage = 5
    /\ ver' = IF ver.outcomes["summary"] = "throws" THEN StageThrew(ver)
              ELSE [ver EXCEPT !.phase = "exited", !.exit = 0,
                               !.comprehensive = TRUE,
                               !.completed = Append(@, "summary")]
    /\ VersionUnchanged

NextStages ==
    \/ StageBegin
    \/ StageEnd
    \/ TestCurrentVersionCompatibility
    \/ TestFeatureCompatibility
    \/ TestDeprecatedFeatures
    \/ TestModernFeatures
    \/ GenerateVersionRecommendations
    \/ SaveResults
    \/ VersionStageEnd
    \/ GenerateSummaryReport

SpecStages == InitStages /\ [][NextStages]_vars

(***************************************************************************)
(* Claims                                                                  *)
(***************************************************************************)

\* every one of the seven declared suites is recorded as passed
AllSuitesPassed ==
    /\ Len(rResults.testSuites) = Len(TestSuites)
    /\ \A i \in 1..Len(rResults.testSuites) : rResults.testSuites[i].status = "passed"

\* the current child emitted 'close' with exit code 0
ClosedWithZero == \E i \in 1..Len(rChild) : rChild[i].ev = "close" /\ rChild[i].code = 0

\* the entry this step appended to results.testSuites
Recorded == rResults'.testSuites[Len(rResults'.testSuites)]

\* C1 as stated: the exit status is 0 if and only if every one of the seven
\* suites is recorded as passed, and 1 otherwise.
C1_ExitZeroIffAllPassed ==
    rPc = "exited" => /\ rExit \in {0, 1}
                      /\ (rExit = 0) <=> AllSuitesPassed

\* C1 amended: the exit status is 0 if and only if every one of the seven suites
\* is recorded as passed and test-report.json was written, and 1 otherwise; a
\* suite is recorded as passed exactly when its script file exists and its child
\* closes with exit code 0.
C1_ExitStatus ==
    /\ [](rPc = "exited" => /\ rExit \in {0, 1}
                            /\ (rExit = 0) <=> (AllSuitesPassed /\ rReport))
    /\ [][Len(rResults'.testSuites) # Len(rResults.testSuites) =>
            /\ Len(rResults'.testSuites) = Len(rResults.testSuites) + 1
            /\ (Recorded.status = "passed") <=> (rPc = "await" /\ ClosedWithZero)
            /\ (Recorded.status = "passed") <=> (rResults'.passedTests = rResults.passedTests + 1)
            /\ (Recorded.status # "passed") <=> (rResults'.failedTests = rResults.failedTests + 1)]_vars

\* C1 witness: the process exited with status 0 after seven passed suites
C1_Witness ==
    /\ rPc = "exited" /\ rExit = 0
    /\ AllSuitesPassed /\ rResults.totalTests = 7

\* C5: for two colours with luminances L1 and L2 calculateContrastRatio returns
\* (max(L1, L2) + 0.05) / (min(L1, L2) + 0.05); swapping the arguments gives the
\* same ratio, the ratio is at least 1 and is 1 exactly when L1 = L2; the inline
\* computations of analyzeContrast and runFinalTest give the same ratio.
C5_ContrastRatio ==
    fn = "calculateContrastRatio" =>
        LET l1 == calculateLuminance(args.color1)
            l2 == calculateLuminance(args.color2)
        IN /\ ret = calculateContrastRatio(args.color2, args.color1)
           /\ analyzeContrastRatio(args.color1, args.color2) = ret
           /\ runFinalTestRatio(args.color1, args.color2) = ret
           /\ (l1 # NaN /\ l2 # NaN) =>
                /\ ret.num = (IF l1 >= l2 THEN l1 ELSE l2) + LumScale \div 20
                /\ ret.den = (IF l1 >= l2 THEN l2 ELSE l1) + LumScale \div 20
                /\ ret.num >= ret.den
                /\ (ret.num = ret.den) <=> (l1 = l2)

\* C5 witness: a ratio was computed with the darker colour as second argument
C5_Witness ==
    /\ fn = "calculateContrastRatio"
    /\ calculateLuminance(args.color1) # NaN
    /\ calculateLuminance(args.color2) # NaN
    /\ calculateLuminance(args.color1) < calculateLuminance(args.color2)
    /\ ret.num > ret.den

\* the claim's channel: the 8-bit value of the two hex digits at i, i + 1 over 255
ClaimChannel(color, i) ==
    ((16 * HexValue(CharAt(color, i)) + HexValue(CharAt(color, i + 1))) * FP) \div 255

\* the claim's linearisation: c / 12.92 when c <= 0.03928, else ((c + 0.055) / 1.055)^2.4
ClaimLinear(c) ==
    IF c <= (3928 * (FP \div 1000)) \div 100 THEN (c * 100) \div 1292
    ELSE MathPow24(((c + (55 * FP) \div 1000) * 1000) \div 1055)

\* the claim's luminance: 0.2126 R + 0.7152 G + 0.0722 B
ClaimLuminance(color) ==
    (2126 * ClaimLinear(ClaimChannel(color, 2)) + 7152 * ClaimLinear(ClaimChannel(color, 4))
     + 722 * ClaimLinear(ClaimChannel(color, 6))) \div 100

\* a #RRGGBB or #RRGGBBAA colour
ClaimIsColor(color) ==
    /\ Len(color) \in {7, 9}
    /\ CharAt(color, 1) = "#"
    /\ \A i \in 2..Len(color) : CharAt(color, i) \in HexDigits

\* C6: calculateLuminance of a #RRGGBB or #RRGGBBAA colour is 0.2126 R + 0.7152 G
\* + 0.0722 B of the linearised channels, the alpha digits are ignored, and the
\* three copies of the function return the same value.
C6_Luminance ==
    fn = "calculateLuminance" =>
        /\ ret = calculateLuminanceAnalysis(args.color1)
        /\ ret = calculateLuminanceFinal(args.color1)
        /\ ClaimIsColor(args.color1) =>
             /\ ret = ClaimLuminance(args.color1)
             /\ ret = ClaimLuminance(SubSeq(args.color1, 1, 7))

\* C6 witness: the luminance of a colour with an alpha channel and with channels
\* on both sides of the 0.03928 threshold
C6_Witness ==
    /\ fn = "calculateLuminance"
    /\ args.color1 = "#0b0b0b80"
    /\ ret > 0

\* C7: getContrastLevel gives AAA from 7, AA from 4.5, AA Large from 3 (lower
\* bounds inclusive) and Fail below 3; the copy of test-light-final.js, the
\* icons of analyzeContrast and the main-editor branch of testContrastRatios
\* use the same 4.5 and 3 boundaries.
C7_ContrastLevel ==
    (fn = "getContrastLevel" /\ RatioArg.num # NaN) =>
        LET n == RatioArg.num
            d == RatioArg.den
        IN /\ (ret = "AAA") <=> (n >= 7 * d)
           /\ (ret = "AA") <=> (2 * n >= 9 * d /\ n < 7 * d)
           /\ (ret = "AA Large") <=> (n >= 3 * d /\ 2 * n < 9 * d)
           /\ (ret = "Fail") <=> (n < 3 * d)
           /\ getContrastLevelFinal(RatioArg) = ret
           /\ (analyzeContrastStatus(RatioArg) = "pass") <=> (ret \in {"AAA", "AA"})
           /\ (analyzeContrastStatus(RatioArg) = "warn") <=> (ret = "AA Large")
           /\ (analyzeContrastStatus(RatioArg) = "fail") <=> (ret = "Fail")
           /\ (mainContrastLog(RatioArg) = "pass") <=> (ret \in {"AAA", "AA"})
           /\ (mainContrastLog(RatioArg) = "warning") <=> (ret = "AA Large")
           /\ (mainContrastLog(RatioArg) = "fail") <=> (ret = "Fail")

\* C7 witness: a ratio of exactly 4.5 was classified AA
C7_Witness ==
    /\ fn = "getContrastLevel"
    /\ RatioArg.num # NaN
    /\ 2 * RatioArg.num = 9 * RatioArg.den
    /\ ret = "AA"

\* the colour values of one group
ClaimGroupColors(group) == {group[i][2] : i \in 1..Len(group)}

\* the colours of the seven groups
ClaimPaletteColors ==
    ClaimGroupColors(BLUES_TEALS) \cup ClaimGroupColors(GREENS)
    \cup ClaimGroupColors(BROWNS_ORANGES) \cup ClaimGroupColors(WARM_TONES)
    \cup ClaimGroupColors(PURPLES_MAGENTAS) \cup ClaimGroupColors(DEEP_PURPLES)
    \cup ClaimGroupColors(GRAYSCALE)

\* C8: APOLLO_PALETTE is the union of the seven groups (six of 6 shades, a
\* grayscale of 10) and getAllApolloColors returns exactly 48 colours.
C8_PaletteHas48 ==
    fn = "getAllApolloColors" =>
        /\ {ret[i] : i \in 1..Len(ret)} = ClaimPaletteColors
        /\ Len(GRAYSCALE) = 10
        /\ \A g \in {BLUES_TEALS, GREENS, BROWNS_ORANGES, WARM_TONES,
                     PURPLES_MAGENTAS, DEEP_PURPLES} : Len(g) = 6
        /\ Len(ret) = 48

\* C9: isValidHexColor is true exactly for '#' followed by six hexadecimal
\* digits ('#172038' valid, '#xyz' not); isApolloColor is true exactly for the
\* colours of the palette ('#172038' is one, '#ffffff' is not); every palette
\* colour is a valid hex colour.
C9_ColorValidation ==
    /\ fn = "isValidHexColor" =>
         /\ ret <=> /\ Len(args.color) = 7
                    /\ CharAt(args.color, 1) = "#"
                    /\ \A i \in 2..7 : CharAt(args.color, i) \in HexDigits
         /\ args.color = "#172038" => ret
         /\ args.color = "#xyz" => ~ret
    /\ fn = "isApolloColor" =>
         /\ ret <=> args.color \in ClaimPaletteColors
         /\ args.color = "#172038" => ret
         /\ args.color = "#ffffff" => ~ret
    /\ fn = "getAllApolloColors" => \A i \in 1..Len(ret) : isValidHexColor(ret[i])

\* C9 witness: isValidHexColor rejected a palette colour followed by two more digits
C9_Witness ==
    /\ fn = "isValidHexColor"
    /\ args.color = "#172038ff"
    /\ ~ret

\* the contrast of a readable theme's colour against its editor.background
ClaimContrast(theme, color) ==
    calculateContrastRatio(Get(theme.colors, "editor.background"), color)

ClaimReadable(theme) ==
    theme.file = "ok" /\ {"colors", "tokenColors"} \subseteq theme.props

ClaimLowSyntaxContrast(theme) ==
    /\ ClaimReadable(theme)
    /\ \E i \in 1..Len(theme.tokenColors) :
          /\ theme.tokenColors[i].foreground # ""
          /\ RatioLT(ClaimContrast(theme, theme.tokenColors[i].foreground), 3, 1)

\* C2: when some tokenColors foreground of either theme has a contrast below
\* 3 against that theme's editor.background, runAllTests returns false.
C2_LowSyntaxContrastFails ==
    (/\ sPc = "done"
     /\ ClaimLowSyntaxContrast(sFiles.dark) \/ ClaimLowSyntaxContrast(sFiles.light))
    => sReturn = "false"

ClaimLowMainContrast(theme) ==
    /\ ClaimReadable(theme)
    /\ RatioLT(ClaimContrast(theme, Get(theme.colors, "editor.foreground")), 9, 2)

\* C3: when the contrast between editor.foreground and editor.background of
\* either theme is below 4.5, runAllTests returns false.
C3_LowMainContrastFails ==
    (/\ sPc = "done"
     /\ ClaimLowMainContrast(sFiles.dark) \/ ClaimLowMainContrast(sFiles.light))
    => sReturn = "false"

\* every colour of a readable theme, a style object's foreground included
ClaimThemeColors(theme) ==
    {theme.colors[i][2] : i \in 1..Len(theme.colors)}
    \cup {theme.tokenColors[i].foreground : i \in 1..Len(theme.tokenColors)}
    \cup {theme.tokenColors[i].background : i \in 1..Len(theme.tokenColors)}
    \cup (IF "semanticTokenColors" \in theme.props
          THEN {theme.semanticTokenColors[i][2].value : i \in 1..Len(theme.semanticTokenColors)}
          ELSE {})

ClaimLogged(type, message) ==
    \E i \in 1..Len(sResults.tests) : sResults.tests[i] = [type |-> type, message |-> message]

ClaimFormatPass(themeFile, theme) ==
    ClaimLogged("pass", themeFile \o ": All colors have valid format")
    => /\ ClaimReadable(theme)
       /\ \A c \in ClaimThemeColors(theme) \ {""} : isValidColor(c)

\* C4: the Color Format Compliance test logs a pass for a theme file only if
\* every colour of the theme matches the colour pattern, the foreground of a
\* semantic token style object included.
C4_FormatPassMeansAllValid ==
    /\ ClaimFormatPass(DarkFile, sFiles.dark)
    /\ ClaimFormatPass(LightFile, sFiles.light)

ClaimCorrectMapping(theme) ==
    \/ theme.type = "dark" /\ theme.uiTheme = "vs-dark"
    \/ theme.type = "light" /\ theme.uiTheme = "vs"

ClaimVerdict(verdict, theme) ==
    verdict # "none" => (verdict = "accept" <=> ClaimCorrectMapping(theme))

\* C10: each of the three checks accepts an entry's uiTheme exactly when it
\* is vs-dark for a theme of type dark and vs for a theme of type light.
C10_ValidatorsAgree ==
    /\ ClaimVerdict(pkg.suite, pkg.theme)
    /\ ClaimVerdict(pkg.installation, pkg.theme)
    /\ ClaimVerdict(pkg.manual, pkg.theme)

\* the theme with every eight-digit semantic token colour cut to six digits
ClaimWithoutAlpha(theme) ==
    [theme EXCEPT !.semanticTokenColors =
        [i \in 1..Len(@) |->
            IF isValidColor(@[i][2].value)
            THEN <<@[i][1], [@[i][2] EXCEPT !.value = Slice(@, 0, 7)]>>
            ELSE @[i]]]

\* C11: a semantic token colour with an alpha channel (#RRGGBBAA) is listed
\* as an invalid colour by no validator and does not change the value
\* testSemanticTokenConsistency returns.
C11_AlphaColoursValid ==
    /\ fn # "" => \A issue \in ret.issues :
                     LET entry == IF fn = "testSemanticTokenConsistency"
                                  THEN issue[2] ELSE issue
                     IN ~isValidColor(entry[2].value)
    /\ fn = "testSemanticTokenConsistency" =>
          ret.result = testSemanticTokenConsistency(ClaimWithoutAlpha(sFiles.dark),
                                                    ClaimWithoutAlpha(sFiles.light)).result

ClaimAllExist(syntax) == \A f \in SyntaxFileSet : syntax[f] # "absent"

ClaimKept(before, after) ==
    \A f \in SyntaxFileSet : before[f] # "absent" => after[f] = before[f]

ClaimFirstEvent == inst.child[1]

\* C13: in both installation testers every vsce test is recorded as passed,
\* whether the vsce child exits 0, exits non-zero or cannot be spawned; the
\* promise of executeCommand resolves only when the child closes with code 0
\* and rejects on a non-zero code or a spawn error.
C13_VsceNeverFails ==
    /\ \A i \in 1..Len(inst.results.tests) :
          inst.results.tests[i].name \in VsceTests => inst.results.tests[i].status = "passed"
    /\ inst.phase = "returned" =>
          \A i \in 1..Len(DeclaredTests(inst.tester)) :
             DeclaredTests(inst.tester)[i] \in VsceTests =>
                inst.results.tests[i] = [name |-> DeclaredTests(inst.tester)[i],
                                         status |-> "passed"]
    /\ inst.phase \in {"version", "ls"} =>
          /\ inst.promise = "pending" <=> inst.child = <<>>
          /\ inst.promise = "resolved" <=>
                (inst.child # <<>> /\ ClaimFirstEvent.ev = "close" /\ ClaimFirstEvent.code = 0)
          /\ inst.promise = "rejected" <=>
                (inst.child # <<>> /\ (ClaimFirstEvent.ev = "error" \/ ClaimFirstEvent.code # 0))

\* C13 witness: the packaging test of the installation tester was recorded
\* as passed after a vsce child could not be spawned
C13_Witness ==
    /\ inst.tester = "installation" /\ inst.phase = "idle" /\ inst.idx = 5
    /\ inst.child # <<>> /\ ClaimFirstEvent.ev = "error"
    /\ inst.results.tests[4] =
          [name |-> "Extension can be packaged (vsce validation)", status |-> "passed"]

ClaimLast(results) == results.tests[Len(results.tests)]

\* C18: between runTest calls totalTests = passedTests + failedTests =
\* tests.length; each call increments totalTests by one, increments exactly
\* one of passedTests and failedTests, and appends exactly one record whose
\* status matches the counter incremented.
C18_RunTestCounters ==
    /\ [](inst.phase \in {"idle", "returned"} =>
            /\ inst.results.totalTests = inst.results.passedTests + inst.results.failedTests
            /\ inst.results.totalTests = Len(inst.results.tests))
    /\ [](inst.phase \in {"version", "ls"} =>
            /\ inst.results.totalTests = Len(inst.results.tests) + 1
            /\ inst.results.passedTests + inst.results.failedTests = Len(inst.results.tests))
    /\ [][inst'.results # inst.results =>
            \/ /\ inst'.phase = "version"
               /\ inst'.results = [inst.results EXCEPT !.totalTests = @ + 1]
            \/ /\ inst'.phase = "idle"
               /\ inst'.results.totalTests = Len(inst.results.tests) + 1
               /\ Len(inst'.results.tests) = Len(inst.results.tests) + 1
               /\ SubSeq(inst'.results.tests, 1, Len(inst.results.tests)) = inst.results.tests
               /\ \/ /\ ClaimLast(inst'.results).status = "passed"
                     /\ inst'.results.passedTests = inst.results.passedTests + 1
                     /\ inst'.results.failedTests = inst.results.failedTests
                  \/ /\ ClaimLast(inst'.results).status = "failed"
                     /\ inst'.results.passedTests = inst.results.passedTests
                     /\ inst'.results.failedTests = inst.results.failedTests + 1]_vars

\* C18 witness: the manual tester ran all its tests, one of them failed
C18_Witness ==
    /\ inst.tester = "manual" /\ inst.phase = "returned"
    /\ inst.results.totalTests = Len(ManualTests)
    /\ inst.results.failedTests = 1 /\ inst.results.passedTests = Len(ManualTests) - 1

ClaimAllRecorded ==
    /\ Len(inst.results.tests) = Len(DeclaredTests(inst.tester))
    /\ \A i \in 1..Len(inst.results.tests) :
          /\ inst.results.tests[i].name = DeclaredTests(inst.tester)[i]
          /\ DeclaredTests(inst.tester)[i] \notin VsceTests =>
                IF inst.outcomes[i] \in {"true", "undefined"}
                THEN inst.results.tests[i].status = "passed"
                ELSE /\ inst.results.tests[i].status = "failed"
                     /\ inst.results.tests[i].error # ""

\* C19 as stated: a test function that throws, rejects or returns a value
\* other than true or undefined is recorded as failed, every later test still
\* runs in the declared order, and runAllTests returns true if and only if
\* failedTests is 0 after the last test.
C19_FailuresDoNotStop ==
    /\ inst.idx <= Len(inst.results.tests) + 1
    /\ inst.phase = "returned" =>
          /\ ClaimAllRecorded
          /\ inst.ret \in {"true", "false"}
          /\ inst.ret = "true" <=> inst.results.failedTests = 0

\* C19 amended: as stated, except that runAllTests returns only when
\* printSummary wrote the report: then it returns true if and only if
\* failedTests is 0; when fs.writeFileSync throws, its promise rejects.
C19_FailuresDoNotStopUnlessReportFails ==
    /\ inst.idx <= Len(inst.results.tests) + 1
    /\ inst.phase = "returned" =>
          /\ ClaimAllRecorded
          /\ inst.ret = "true" <=> (inst.results.failedTests = 0 /\ inst.report)
          /\ inst.ret = "false" <=> (inst.results.failedTests # 0 /\ inst.report)
          /\ inst.ret = "rejected" <=> ~inst.report

\* C19 witness: the first test function threw, the last returned false, all
\* eighteen tests of the installation tester ran and runAllTests returned false
C19_Witness ==
    /\ inst.tester = "installation" /\ inst.phase = "returned" /\ inst.ret = "false"
    /\ inst.outcomes[1] = "throws" /\ inst.outcomes[18] = "false"
    /\ inst.results.tests[1].status = "failed" /\ inst.results.tests[18].status = "failed"
    /\ inst.results.tests[2].status = "passed"
    /\ inst.results.failedTests = 2

ClaimStatusOf(major, minor) ==
    IF major > 1 \/ (major = 1 /\ minor >= 60) THEN "good"
    ELSE IF major < 1 \/ (major = 1 /\ minor < 50) THEN "outdated" ELSE "acceptable"

ClaimEngineChecked == VersionIs("step2") /\ ver.package.file = "ok" /\ ver.package.hasEngines

\* C14: for engines.vscode made of an optional operator (^, ~, >=, <, =) and
\* MAJOR.MINOR.PATCH, testCurrentVersionCompatibility records parsedVersion
\* equal to that version and status 'good' when the version is at least 1.60,
\* 'outdated' when it is below 1.50 and 'acceptable' otherwise; ^1.80.0 is
\* recorded 'good' with isTooOld false.
C14_EngineVersionStatus ==
    ClaimEngineChecked =>
        \A op \in EngineOperators, ma \in EngineMajors, mi \in EngineMinors, pa \in EnginePatches :
            ver.package.vscode = op \o VersionText(ma, mi, pa) =>
                /\ ver.compatibility.engineVersion.status = ClaimStatusOf(ma, mi)
                /\ ver.compatibility.engineVersion.parsedVersion = VersionText(ma, mi, pa)
                /\ ver.compatibility.engineVersion.isTooOld = (ClaimStatusOf(ma, mi) = "outdated")

\* C14 failing input: engines.vscode = '^1.80.0' was checked
C14_FailingInput ==
    /\ ClaimEngineChecked /\ ver.package.vscode = "^1.80.0"
    /\ ver.compatibility.engineVersion.status = "outdated"
    /\ ver.compatibility.engineVersion.parsedVersion = "."
    /\ ver.compatibility.engineVersion.isTooOld

ClaimBadThemeFile == AnyReadThrows(ver)

\* C16: when a theme file is missing or holds invalid JSON, runAllTests of
\* ApolloThemeVSCodeVersionTest still runs all five steps, the report is
\* saved, the results are returned and the promise does not reject.
C16_BadThemeFileNeverRejects ==
    (VersionIs("done") /\ ClaimBadThemeFile /\ ver.disk = "writable") =>
        /\ Len(ver.steps) = 5
        /\ ver.report
        /\ ver.ret = "results"

\* C16 failing input: the dark theme file is missing, the fourth step threw
C16_FailingInput ==
    /\ VersionIs("done") /\ ver.dark.file = "missing" /\ ver.disk = "writable"
    /\ ver.ret = "rejected" /\ ~ver.report
    /\ Len(ver.steps) = 4
    /\ ver.compatibility.features.semanticHighlighting = ErrorResult
    /\ ver.compatibility.deprecated = Absent

ClaimRated == fn \in {"calculatePerformanceRating", "calculateCompatibilityRating"}

ClaimTableKeys == <<"keyword", "string", "comment", "variable", "function", "class",
                    "number", "operator">>

\* C17: for keyword, string, comment, variable, function, class, number and
\* operator, getSyntaxColors(true) gives the Dark Theme column of the README
\* table and getSyntaxColors(false) the Light Theme column; every colour that
\* getSyntaxColors and getWorkbenchColors return is a colour of the palette.
C17_ReadmeSyntaxColours ==
    /\ fn = "getSyntaxColors" =>
          /\ \A i \in 1..Len(ClaimTableKeys) :
                Get(ret, ClaimTableKeys[i]) =
                    README_SyntaxTable[i][IF args.isDark THEN 2 ELSE 3]
          /\ \A i \in 1..Len(ret) : ret[i][2] \in ClaimPaletteColors
    /\ fn = "getWorkbenchColors" =>
          \A i \in 1..Len(ret) : ret[i][2] \in ClaimPaletteColors

\* C17 witness: getSyntaxColors(false) returned the light colour of keywords
C17_Witness ==
    /\ fn = "getSyntaxColors" /\ ~args.isDark
    /\ Get(ret, "keyword") = "#3c5e8b" /\ Len(ret) = 11

ClaimLoggedAs(types) ==
    Cardinality({i \in 1..Len(sResults.tests) : sResults.tests[i].type \in types})

\* C20: in ApolloThemeTestSuite results.tests.length = passed + failed +
\* warnings after any sequence of log calls; each call counts in exactly one
\* counter, logPass in passed, logFail and logError in failed, logWarning in
\* warnings; runAllTests returns true if and only if failed is 0, whatever
\* the number of warnings.
C20_SuiteCounters ==
    /\ Len(sResults.tests) = sResults.passed + sResults.failed + sResults.warnings
    /\ sResults.passed = ClaimLoggedAs({"pass"})
    /\ sResults.failed = ClaimLoggedAs({"fail", "error"})
    /\ sResults.warnings = ClaimLoggedAs({"warning"})
    /\ sPc = "done" => /\ sReturn \in {"true", "false"}
                       /\ sReturn = "true" <=> sResults.failed = 0

\* C20 witness: runAllTests returned true with warnings logged
C20_Witness ==
    /\ sPc = "done" /\ sReturn = "true"
    /\ sResults.warnings > 0 /\ sResults.failed = 0 /\ sResults.passed > 0

\* C20 witness of the other kinds of call: an error and a failure were logged
C20_ErrorLogged ==
    /\ sPc = "done" /\ sReturn = "false"
    /\ ClaimLoggedAs({"error"}) > 0 /\ ClaimLoggedAs({"fail"}) > 0

ClaimSuiteCount == Len(rResults.testSuites)

\* C21: TestRunner runs its suites one at a time in the declared order: a
\* child is spawned only when every earlier suite is recorded; after k suites
\* testSuites has k entries and passedTests + failedTests = k; a suite whose
\* script file does not exist is recorded as failed without a spawn; a failed
\* or crashed suite does not keep the remaining suites from running.
C21_SuitesInOrder ==
    /\ [](/\ \A i \in 1..ClaimSuiteCount :
                rResults.testSuites[i].name = TestSuites[i].name
          /\ rResults.passedTests + rResults.failedTests = ClaimSuiteCount
          /\ rPc \in {"loop", "await"} => ClaimSuiteCount = rIdx - 1
          /\ rPc \in {"settled", "exited"} => ClaimSuiteCount = Len(TestSuites))
    /\ [][/\ (rPc = "loop" /\ rPc' = "await") =>
                /\ ClaimSuiteCount = rIdx - 1
                /\ rChild' = <<>> /\ rPromise' = "pending"
                /\ rResults' = rResults
          /\ (rPc = "await" /\ rPc' = "await") => rResults' = rResults
          /\ (Len(rResults'.testSuites) # ClaimSuiteCount
              /\ Recorded.error = "Test file not found") =>
                /\ Recorded.status = "failed"
                /\ rPc = "loop" /\ rPc' = "loop"
                /\ rChild' = rChild /\ rPromise' = rPromise
          /\ (Len(rResults'.testSuites) # ClaimSuiteCount
              /\ Recorded.status # "passed" /\ rIdx < Len(TestSuites)) =>
                /\ rIdx' = rIdx + 1 /\ rPc' = "loop"]_vars

\* C21 witness: the first suite crashed, the second had no script file, the
\* third failed, and the seventh still ran and passed
C21_Witness ==
    /\ rPc = "settled" /\ ClaimSuiteCount = 7
    /\ rResults.testSuites[1].status = "crashed"
    /\ rResults.testSuites[2].error = "Test file not found"
    /\ rResults.testSuites[3] = [name |-> "Dark Theme Validation", status |-> "failed",
                                 error |-> "child"]
    /\ rResults.testSuites[7].status = "passed"
    /\ rResults.passedTests = 4 /\ rResults.failedTests = 3

ClaimFirstOfChild == rChild[1]

ClaimFirstEventDecides ==
    /\ [](rChild # <<>> =>
            /\ rPromise = "success" <=>
                  (ClaimFirstOfChild.ev = "close" /\ ClaimFirstOfChild.code = 0)
            /\ rPromise = "failure" <=>
                  (ClaimFirstOfChild.ev = "error" \/ ClaimFirstOfChild.code # 0))
    /\ [][/\ (rChild # <<>> /\ rChild' # rChild /\ rChild' # <<>>) =>
                (rPromise' = rPromise /\ rResults' = rResults)
          /\ (Len(rResults'.testSuites) # ClaimSuiteCount /\ rPc = "await") =>
                /\ Len(rResults'.testSuites) = ClaimSuiteCount + 1
                /\ (Recorded.status = "passed") <=> (rPromise = "success")
                /\ (Recorded.status = "failed") <=> (rPromise = "failure")]_vars

\* C22 as stated: the promise of executeTest never rejects and takes its
\* value from the first of the child's 'close' and 'error' events: success
\* is true if and only if that event is 'close' with code 0; a later event
\* changes neither the value nor the records.
C22_ExecuteTestNeverRejects ==
    /\ [](rPromise # "rejected")
    /\ ClaimFirstEventDecides

\* C22 amended: the promise of executeTest rejects only when spawn throws
\* inside the executor, before a child exists, and the suite is then
\* recorded as crashed; the promise of a spawned child never rejects and
\* takes its value from the first of 'close' and 'error' as stated.
C22_ExecuteTestFirstEvent ==
    /\ [](rPromise = "rejected" => (rChild = <<>> /\ rPc # "await"))
    /\ [][(Len(rResults'.testSuites) # ClaimSuiteCount) =>
            ((Recorded.status = "crashed") <=>
                (rPromise' = "rejected" /\ rChild' = <<>> /\ rPc = "loop"
                 /\ Recorded.error # "Test file not found"))]_vars
    /\ ClaimFirstEventDecides

\* C22 witness: the child closed with code 0, the suite was recorded as
\* passed, and a late 'error' event arrived afterwards
C22_Witness ==
    /\ rPc = "loop" /\ rPromise = "success"
    /\ rChild = <<[ev |-> "close", code |-> 0], [ev |-> "error", code |-> NullCode]>>
    /\ ClaimSuiteCount = 1 /\ rResults.testSuites[1].status = "passed"

ClaimPrefix(seq, n) == seq = SubSeq(StageOrder, 1, n)

C23_ReportWritten ==
    /\ ver.phase = "exited" /\ ver.exit = 0 /\ ver.comprehensive
    /\ ver.completed = StageOrder /\ ver.report

ClaimLightColour(theme, key) ==
    Get(theme.colors, key) # Undefined /\ isLightColor(Get(theme.colors, key))

ClaimDarkColour(theme, key) ==
    Get(theme.colors, key) # Undefined /\ isDarkColor(Get(theme.colors, key))

\* C24: validateLightThemeStructure returns true only if editor.background
\* of the light theme is a light colour and editor.foreground a dark one,
\* light meaning (0.299 R + 0.587 G + 0.114 B) / 255 > 0.5 and dark the
\* opposite; it returns false when semantic highlighting is not enabled,
\* when semanticTokenColors, tokenColors or colors is missing, and when the
\* file cannot be read or parsed.
C24_LightThemeColours ==
    fn = "validateLightThemeStructure" =>
        /\ ret.result => /\ ClaimLightColour(sFiles.light, "editor.background")
                         /\ ClaimDarkColour(sFiles.light, "editor.foreground")
        /\ (\/ sFiles.light.file # "ok"
            \/ ~sFiles.light.semanticHighlighting
            \/ {"semanticTokenColors", "tokenColors", "colors"} \ sFiles.light.props # {})
           => ~ret.result

\* C24 failing input: the light theme has the dark editor.background
\* #090a14; the validator did not print the line for a light background and
\* returned true
C24_FailingInput ==
    /\ fn = "validateLightThemeStructure" /\ ret.result
    /\ Get(sFiles.light.colors, "editor.background") = "#090a14"
    /\ isDarkColor("#090a14")
    /\ "Editor background is appropriately light" \notin ret.printed
    /\ "Editor foreground is appropriately dark" \in ret.printed

\* a rule scope that equals the essential scope or is a more specific scope
\* beginning with it
ClaimCovers(defined, scope) ==
    \/ defined = scope
    \/ Len(defined) > Len(scope) /\ SubSeq(defined, 1, Len(scope) + 1) = scope \o "."

ClaimHasRuleFor(theme, scope) ==
    /\ theme.file = "ok" /\ "tokenColors" \in theme.props
    /\ \E defined \in definedScopes(theme) : ClaimCovers(defined, scope)

ClaimCoveragePass(themeFile, theme) ==
    ClaimLogged("pass", themeFile \o ": All essential syntax scopes covered")
    => \A e \in 1..Len(essentialScopes) : ClaimHasRuleFor(theme, essentialScopes[e])

\* C25: testSyntaxHighlighting logs 'All essential syntax scopes covered'
\* for a theme file only if, for each essential scope, some tokenColors rule
\* scope of the theme equals it or is a more specific scope beginning with
\* it.
C25_EssentialScopesCovered ==
    /\ ClaimCoveragePass(DarkFile, sFiles.dark)
    /\ ClaimCoveragePass(LightFile, sFiles.light)

\* C25 failing input: the dark theme has a rule for entity.name.tag and none
\* for entity.name.function or entity.name.class; the coverage pass was
\* logged for it
C25_FailingInput ==
    /\ ClaimLogged("pass", DarkFile \o ": All essential syntax scopes covered")
    /\ "entity.name.tag" \in definedScopes(sFiles.dark)
    /\ ~ClaimHasRuleFor(sFiles.dark, "entity.name.function")
    /\ ~ClaimHasRuleFor(sFiles.dark, "entity.name.class")
    /\ \A e \in 1..Len(essentialScopes) :
          essentialScopes[e] \notin {"entity.name.function", "entity.name.class"}
          => ClaimHasRuleFor(sFiles.dark, essentialScopes[e])

====
